---- MODULE Spec2Model ----
(***************************************************************************)
(* Model of the 0x53 DNS sinkhole: the blocklist Manager                   *)
(* (internal/blocklist/manager.go, kept as src/unnamed/part_003) and the   *)
(* DNS Server (internal/dns/server.go, kept in the second half of          *)
(* src/internal/dns/server_test.go).                                       *)
(*                                                                         *)
(* A Go string is a sequence of one-character strings; a Go map used as a  *)
(* set (map[string]struct{}) is a set of such sequences.                   *)
(***************************************************************************)
EXTENDS Integers, Sequences, FiniteSets, TLC

\* ------------------------------------------------------------------ bounds
\* Longest queried name, in characters.
MaxLen == 4
\* Largest ruleset drawn for the classifier.
MaxRules == 1

\* ----------------------------------------------------------------- strings
\* The characters names are built from: a lowercase letter, its uppercase
\* form and the label separator.
NameChars == {"a", "A", "."}

Strs(chars, n) == UNION {[1..k -> chars] : k \in 0..n}

\* strings.ToLower, one character.
LowerChar(c) == IF c = "A" THEN "a" ELSE c

\* strings.ToLower(s)
ToLower(s) == [i \in 1..Len(s) |-> LowerChar(s[i])]

\* strings.TrimSuffix(s, "."): removes one trailing dot, if there is one.
TrimSuffixDot(s) ==
    IF Len(s) > 0 /\ s[Len(s)] = "." THEN SubSeq(s, 1, Len(s) - 1) ELSE s

\* strings.Index(s, c) for a one-character c: the 0-based index of the first
\* occurrence, or -1.
Index(s, c) ==
    IF \E i \in 1..Len(s) : s[i] = c
    THEN (CHOOSE i \in 1..Len(s) : s[i] = c /\ \A j \in 1..(i - 1) : s[j] # c) - 1
    ELSE -1

\* s[i:] with a 0-based i.
SliceFrom(s, i) == SubSeq(s, i + 1, Len(s))

\* --------------------------------------------------------------- IsBlocked
\* Manager.IsBlocked, "Normalize": lowercase, then strip one trailing dot.
MutNormalizeNoTrim(domain) == ToLower(domain)

Normalize(domain) == TrimSuffixDot(ToLower(domain))

\* One turn of the subdomain walk: domain = domain[idx+1:].
StripLabel(domain, idx) == SliceFrom(domain, idx + 1)

\* A walk that skips a remainder without a dot (a bare top-level label).
RECURSIVE MutWalkSkipTLD(_, _)
MutWalkSkipTLD(rules, domain) ==
    LET idx == Index(domain, ".") IN
    IF idx = -1 THEN FALSE
    ELSE LET rest == StripLabel(domain, idx) IN
         IF Index(rest, ".") # -1 /\ rest \in rules THEN TRUE
         ELSE MutWalkSkipTLD(rules, rest)

\* The walk loop of Manager.IsBlocked, from a normalized name that matched
\* nothing so far: strip the leftmost label, look the remainder up, repeat
\* until no dot is left.
RECURSIVE Walk(_, _)
Walk(rules, domain) ==
    LET idx == Index(domain, ".") IN
    IF idx = -1 THEN FALSE
    ELSE LET rest == StripLabel(domain, idx) IN
         IF rest \in rules THEN TRUE ELSE Walk(rules, rest)

\* Step 0 of Manager.IsBlocked: is the normalized name in allowlistMap?
MutAllowedNever(allow, domain) == FALSE

Allowed(allow, domain) == domain \in allow

\* Manager.IsBlocked on a ruleset and an allowlist map, as one evaluation
\* (the method holds the read lock from entry to return).
IsBlockedIn(rules, allow, d) ==
    LET domain == Normalize(d) IN
    IF Allowed(allow, domain) THEN FALSE
    ELSE IF domain \in rules THEN TRUE
    ELSE Walk(rules, domain)

\* ------------------------------------------------------------------- state
VARIABLES
    maps,          \* the heap of map[string]struct{} objects: id -> set
    domains,       \* Manager.domains: the id of the live ruleset's map
    allowlistMap,  \* Manager.allowlistMap
    query,         \* the argument of the last IsBlocked call from outside
    blocked,       \* its result: <<>> before the first call, then <<b>>
    statsQueries,  \* Server.statsQueries
    statsBlocked,  \* Server.statsBlocked
    handler,       \* the goroutines running Server.handleRequest
    stats,         \* a call of Server.Stats, load by load
    cfg,           \* Manager.cfg: Blocklists and Allowlist
    mu,            \* Manager.mu, the reader-writer lock
    load,          \* the calls of Manager.LoadBlocklists in progress
    task,          \* their per-source goroutines
    reader,        \* a call of Manager.IsBlocked, lookup by lookup
    installed,     \* the ruleset as it was when last installed (history)
    cache,         \* the files of cfg.CacheDir, one per source URL
    upstream,      \* what each source URL serves at present
    disk,          \* the file config.yaml of cfg.ConfigDir
    lastCall,      \* the latest call of a Manager method, with its results
    flagsSeen,     \* the Enabled flags as they stood together (history)
    svc,           \* AppService: the log ring and the calls made of it
    boot,          \* the process: runDaemon from the initial load on
    etc,           \* the resolver files under /etc and the daemon using them
    lk             \* the goroutines by the locks they hold and ask for

mgrVars == <<maps, domains, allowlistMap>>
callVars == <<query, blocked>>
dnsVars == <<statsQueries, statsBlocked, handler, stats>>
loadVars == <<cfg, mu, load, task, reader, installed>>
envVars == <<cache, upstream, disk, lastCall, flagsSeen>>
appVars == <<svc, boot, etc, lk>>
vars == <<mgrVars, callVars, dnsVars, loadVars, envVars, appVars>>

\* The live ruleset.
Live == maps[domains]

\* Goroutines of the UDP server, one per inbound datagram; two of them run
\* side by side.
Handlers == {1, 2}

NoRequest == [Id |-> 0, Opcode |-> "QUERY", Question |-> <<>>]

\* No call of Stats made yet. q and b are the two values loaded; held is
\* history: the pairs the two counters held together since the first load.
IdleStats == [pc |-> "idle", q |-> 0, b |-> 0, held |-> {}]

\* The retention bound of the log ring: logLimit of NewAppService.
logLimit == 200

\* Most lines logged in a run.
MaxLogs == 203

\* NewAppService: an empty log ring. logged counts the calls of Log and
\* got is what the latest call of GetRecentLogs was given and returned,
\* with the value of logged at that time (both history).
NewAppService ==
    [logLines |-> <<>>, logged |-> 0,
     got |-> [count |-> 0, at |-> 0, ret |-> <<>>]]

\* The process before "go svc.Reload()". reload is the goroutine of the
\* initial load, listen the goroutine of ListenAndServe, ready the channel
\* srv.Ready (closed or not), sysdns who the system resolves through, exit
\* the exit code (-1: running); served is history: the datagrams handled,
\* each with the state of the initial load and the ruleset at the time.
NoBoot ==
    [pc |-> "init", reload |-> "none", n |-> 0, listen |-> "none",
     ready |-> FALSE, stopped |-> FALSE, sysdns |-> "system", exit |-> 0 - 1,
     served |-> {}]

\* The goroutines looked at for their locking: one handler of datagrams,
\* one caller of Reload with the two source goroutines of its load, and
\* two callers of the other methods: one of the service's, one of the
\* SetLogger methods.
Threads == {"handler", "reload", "task1", "task2", "api1", "api2"}

\* A goroutine that is in none of the functions: op is the function it
\* runs, pc the number of lock operations of it done, held the locks it
\* holds, each with its mode, asked whether it waits as a writer.
IdleThread == [op |-> "none", pc |-> 0, held |-> {}, asked |-> FALSE]

\* What SetupDNS writes into /etc/resolv.conf.
ManagedResolvConf ==
    "# Managed by Go-Sinkhole\nnameserver 127.0.0.1\noptions edns0 trust-ad\n"

\* The files of a system: /etc/resolv.conf (resolv) and its copy
\* /etc/resolv.conf.orig.sinkhole (orig), /etc/systemd/resolved.conf
\* (resolved, line by line) and its copy resolved.conf.backup.sinkhole
\* (backup); a copy is <<>> when the file is not there, else <<content>>.
\* pc is where the daemon stands, was the two files as they were before
\* the first setup since the last restore (history), unlocks and setups
\* the calls since then, crashes the times the daemon ended without
\* RestoreDNS.
Etc(resolv, resolved) ==
    [pc |-> "down", resolv |-> resolv, orig |-> <<>>, resolved |-> resolved,
     backup |-> <<>>, was |-> [resolv |-> resolv, resolved |-> resolved],
     unlocks |-> 0, setups |-> 0, crashes |-> 0]

InitApp ==
    /\ svc = NewAppService
    /\ boot = NoBoot
    /\ etc = Etc("nameserver 192.0.2.1\n", <<"[Resolve]">>)
    /\ lk = [t \in Threads |-> IdleThread]

\* NewServer: both counters zero, no datagram taken in yet.
InitServer ==
    /\ InitApp
    /\ statsQueries = 0
    /\ statsBlocked = 0
    /\ handler = [h \in Handlers |->
                    [pc |-> "idle", r |-> NoRequest, i |-> 0, w |-> <<>>,
                     up |-> <<>>, cls |-> <<>>, log |-> <<>>,
                     inc |-> [queries |-> 0, blocked |-> 0]]]
    /\ stats = IdleStats

\* ------------------------------------------------------- source parsing
\* strings.TrimSpace(s), the only white space being the blank.
RECURSIVE TrimLeft(_)
TrimLeft(s) == IF s # <<>> /\ Head(s) = " " THEN TrimLeft(Tail(s)) ELSE s

RECURSIVE TrimRight(_)
TrimRight(s) ==
    IF s # <<>> /\ s[Len(s)] = " " THEN TrimRight(SubSeq(s, 1, Len(s) - 1)) ELSE s

TrimSpace(s) == TrimRight(TrimLeft(s))

\* if idx := strings.Index(line, "#"); idx != -1 { line = line[:idx] }
CutComment(line) ==
    LET idx == Index(line, "#") IN
    IF idx # -1 THEN SubSeq(line, 1, idx) ELSE line

\* strings.Fields(s): the maximal runs of non-blank characters.
RECURSIVE Fields(_)
Fields(s) ==
    LET t == TrimLeft(s) IN
    IF t = <<>> THEN <<>>
    ELSE LET idx == Index(t, " ")
             end == IF idx = -1 THEN Len(t) ELSE idx
         IN <<SubSeq(t, 1, end)>> \o Fields(SubSeq(t, end + 1, Len(t)))

\* The addresses parseHostsLine takes as a null route: "0.0.0.0",
\* "127.0.0.1", "::1" and "0".
NullRoutes ==
    {<<"0", ".", "0", ".", "0", ".", "0">>,
     <<"1", "2", "7", ".", "0", ".", "0", ".", "1">>,
     <<":", ":", "1">>,
     <<"0">>}

\* parseHostsLine without the removal of the trailing comment.
MutParseHostsLineKeepsComment(line) ==
    IF line = <<>> \/ Head(line) = "#" THEN <<>>
    ELSE LET fields == Fields(line) IN
         IF Len(fields) >= 2 /\ fields[1] \in NullRoutes
         THEN ToLower(fields[2]) ELSE <<>>

\* parseHostsLine(line): the domain, or "" for none.
parseHostsLine(line) ==
    IF line = <<>> \/ Head(line) = "#" THEN <<>>
    ELSE LET fields == Fields(CutComment(line)) IN
         IF Len(fields) >= 2 /\ fields[1] \in NullRoutes
         THEN ToLower(fields[2]) ELSE <<>>

\* The else branch of the scan loop: a raw domain list.
parseRawLine(line) ==
    LET l == TrimSpace(CutComment(line)) IN
    IF l # <<>> THEN ToLower(l) ELSE <<>>

\* The body of the scan loop up to "if domain != """: the domain of one
\* scanned line, "" for none.
LineDomain(format, text) ==
    LET line == TrimSpace(text) IN
    IF format = "hosts" THEN parseHostsLine(line) ELSE parseRawLine(line)

\* scanner.Buffer(buf, 1024*1024): the longest line the scanner takes.
MaxScanTokenSize == 1024 * 1024

\* A line of a source: its text, followed by pad blanks that are not
\* spelled out.
Ln(text) == [text |-> text, pad |-> 0]
LongLn(text) == [text |-> text, pad |-> MaxScanTokenSize]

\* The lines scanner.Scan() delivers: Scan returns false for good at the
\* first line that does not fit the buffer (bufio.ErrTooLong), which the
\* loader only logs ("Error scanning").
RECURSIVE Scanned(_)
Scanned(content) ==
    IF content = <<>> THEN <<>>
    ELSE IF Len(Head(content).text) + Head(content).pad >= MaxScanTokenSize
         THEN <<>>
         ELSE <<Head(content).text>> \o Scanned(Tail(content))

\* The scan loop of one source goroutine: localMap and count.
ParseSource(format, content) ==
    LET lines == Scanned(content)
        valid == {i \in 1..Len(lines) : LineDomain(format, lines[i]) # <<>>}
    IN [localMap |-> {TrimSuffixDot(LineDomain(format, lines[i])) : i \in valid},
        count |-> Cardinality(valid)]

\* ------------------------------------------------------------- the loader
\* The configured sources, by position in cfg.Blocklists.
Sources == {1, 2}

\* Name and Format of the configured sources; Enabled is state.
SourceName(s) == IF s = 1 THEN "hosts-list" ELSE "raw-list"
SourceFormat(s) == IF s = 1 THEN "hosts" ELSE "wild"

\* What a download of each source can deliver.
\*   source 1 (hosts):  "# a" / "0 a" / " 0  A.a. #a" / "a a" / ""
\*   source 2 (raw):    "A." / "aa #a" / "#"
\*   source 2, damaged: a line longer than the scanner's buffer, then "aa"
Contents(s) ==
    IF s = 1
    THEN { << Ln(<<"#", " ", "a">>), Ln(<<"0", " ", "a">>),
              Ln(<<" ", "0", " ", " ", "A", ".", "a", ".", " ", "#", "a">>),
              Ln(<<"a", " ", "a">>), Ln(<<>>) >> }
    ELSE { << Ln(<<"A", ".">>), Ln(<<"a", "a", " ", "#", "a">>), Ln(<<"#">>) >>,
           << LongLn(<<"a">>), Ln(<<"a", "a">>) >> }

\* The results of fetchEx(ctx, src): an error, or the content.
FetchOutcomes(s) ==
    {[err |-> TRUE, content |-> <<>>]} \cup
    {[err |-> FALSE, content |-> c] : c \in Contents(s)}

\* Callers of LoadBlocklists (AppService.Reload) running at a time.
Loaders == {1, 2}

\* The caller looked at where one load runs at a time.
OneLoader == {1}

NoTask == [pc |-> "none", failed |-> FALSE, format |-> "", content |-> <<>>,
           localMap |-> {}, count |-> 0, todo |-> {}]

IdleLoad == [pc |-> "idle", newMap |-> 0, i |-> 0, mu |-> 0, duplicates |-> 0,
             totalProcessed |-> 0, err |-> FALSE, total |-> 0]

\* Ids for the map objects: the live one and one under construction per
\* caller.
MapIds == 0..Cardinality(Loaders)

IdleReader == [pc |-> "idle", d |-> <<>>, domain |-> <<>>, seen |-> <<>>,
               snap |-> {}, ret |-> FALSE]

\* The names the reader asks about.
ReaderQueries == {<<"a", ".", "a">>, <<"A", ".", "a", "a", ".">>}

\* ------------------------------------------------- the cache directory
\* 24*time.Hour, in hours: the age from which a cache file is not used.
CacheTTL == 24

\* Hours that pass in one step of the clock.
TickHours == 24

\* Most lines a write that breaks off midway leaves in the file.
MaxCut == 0

\* The cache file of a source: not there, or there with the time since its
\* ModTime (in hours) and its content.
NoEntry == [exists |-> FALSE, age |-> 0, content |-> <<>>]
Entry(age, content) == [exists |-> TRUE, age |-> age, content |-> content]

\* A freshness test that still takes a file of exactly 24 hours.
MutFreshInclusive(entry) == entry.age <= CacheTTL

\* time.Since(info.ModTime()) < 24*time.Hour
Fresh(entry) == entry.age < CacheTTL

\* os.WriteFile(filename, body, 0644), by how it goes: "ok" leaves the body
\* in a file just modified; "denied" (the file cannot be opened) leaves
\* what was there; "partial" (the file was truncated and the write broke
\* off, as on a full disk) leaves the first lines of the body in a file just
\* modified.
WriteOutcomes(entry, body) ==
    {[kind |-> "ok", entry |-> Entry(0, body)],
     [kind |-> "denied", entry |-> entry]} \cup
    {[kind |-> "partial", entry |-> Entry(0, SubSeq(body, 1, k))] :
        k \in {j \in 0..MaxCut : j < Len(body)}}

\* A download whose cache write failed counted as a failed fetch.
MutDownloadedWriteFatal(body, written) ==
    [err |-> ~written, content |-> IF written THEN body ELSE <<>>]

\* "_ = os.WriteFile(...); return string(body), nil": what fetchEx returns
\* after a download, the write having worked or not.
Downloaded(body, written) == [err |-> FALSE, content |-> body]

\* Why fetchEx does not return the cache file: there is none ("absent"),
\* it is 24 hours old or older ("old"), or it is young but os.Stat or
\* os.ReadFile fails ("unreadable").
MissCauses(entry) ==
    IF ~entry.exists THEN {"absent"}
    ELSE IF Fresh(entry) THEN {"unreadable"}
    ELSE {"old"}

\* How the download can end short of a body: the request, client.Do or
\* io.ReadAll fails ("error"), or the status is not 200 ("status").
GetFailures == {"error", "status"}

\* fetchEx falling back on a cache file that is too old when the download
\* fails.
MutFetchExStaleFallback(entry, body) ==
    (IF entry.exists /\ Fresh(entry)
     THEN {[cause |-> "hit", get |-> "none", write |-> "none", err |-> FALSE,
            content |-> entry.content, entry |-> entry]}
     ELSE {})
    \cup
    {[cause |-> c, get |-> g, write |-> "none", err |-> c # "old",
      content |-> IF c = "old" THEN entry.content ELSE <<>>, entry |-> entry] :
        c \in MissCauses(entry), g \in GetFailures}
    \cup
    {[cause |-> c, get |-> "ok", write |-> w.kind,
      err |-> Downloaded(body, w.kind = "ok").err,
      content |-> Downloaded(body, w.kind = "ok").content,
      entry |-> w.entry] :
        c \in MissCauses(entry), w \in WriteOutcomes(entry, body)}

\* fetchEx(ctx, src) for a source whose cache file is entry and whose URL
\* serves body: every way the call can go, each with what it returns
\* (err, content), the request it made (get), the cache write it made
\* (write) and the cache file it leaves (entry).
fetchEx(entry, body) ==
    (IF entry.exists /\ Fresh(entry)
     THEN {[cause |-> "hit", get |-> "none", write |-> "none", err |-> FALSE,
            content |-> entry.content, entry |-> entry]}
     ELSE {})
    \cup
    {[cause |-> c, get |-> g, write |-> "none", err |-> TRUE,
      content |-> <<>>, entry |-> entry] :
        c \in MissCauses(entry), g \in GetFailures}
    \cup
    {[cause |-> c, get |-> "ok", write |-> w.kind,
      err |-> Downloaded(body, w.kind = "ok").err,
      content |-> Downloaded(body, w.kind = "ok").content,
      entry |-> w.entry] :
        c \in MissCauses(entry), w \in WriteOutcomes(entry, body)}

\* A source the range loop passes over.
NoFetch(entry) ==
    [cause |-> "skipped", get |-> "none", write |-> "none", err |-> FALSE,
     content |-> <<>>, entry |-> entry]

\* -------------------------------------------------------- the config file
EmptyCfg == [Blocklists |-> <<>>, Allowlist |-> <<>>]

\* config.yaml: not there, or written whole, or cut short.
NoFile == [written |-> "no", cfg |-> EmptyCfg]

\* How config.Save can go: "ok"; "denied" (os.MkdirAll fails or the file
\* cannot be opened: nothing is touched); "partial" (os.WriteFile breaks
\* off after truncating the file).
SaveOutcomes == {"ok", "denied", "partial"}

\* config.Save(c, path) on the file dsk: the error and the file left.
Save(c, dsk, how) ==
    [err |-> how # "ok",
     disk |-> CASE how = "ok" -> [written |-> "whole", cfg |-> c]
                [] how = "denied" -> dsk
                [] OTHER -> [written |-> "part", cfg |-> EmptyCfg]]

\* The record of a call of a Manager method: the method, its arguments, the
\* error it returned and what else it returned; n flips with every call.
NoCall == [op |-> "none", n |-> 0, arg |-> <<>>, err |-> FALSE, out |-> <<>>]
Call(op, arg, err, out) ==
    [op |-> op, n |-> 1 - lastCall.n, arg |-> arg, err |-> err, out |-> out]

\* The sources whose Enabled flag is set.
EnabledSet(blocklists) == {s \in DOMAIN blocklists : blocklists[s].Enabled}

\* Outside the runs that look at them: no cache file, no config file, no
\* call made.
InitEnv ==
    /\ cache = [s \in Sources |-> NoEntry]
    /\ upstream = [s \in Sources |-> <<>>]
    /\ disk = NoFile
    /\ lastCall = NoCall
    /\ flagsSeen = {}

\* What the loader part of the state is while only the classifier or only
\* the server is looked at: a manager just built from an empty config.
InitLoader ==
    /\ cfg = [Blocklists |-> <<>>, Allowlist |-> <<>>]
    /\ mu = [w |-> FALSE, r |-> {}]
    /\ load = [l \in Loaders |-> IdleLoad]
    /\ task = [l \in Loaders |-> [s \in Sources |-> NoTask]]
    /\ reader = IdleReader
    /\ installed = {}
    /\ InitEnv

\* NewManager(cfg) for a config with the two sources, each enabled or not,
\* and an allowlist.
InitLoad ==
    /\ \E e \in [Sources -> BOOLEAN], al \in {<<>>, <<(<<"a", ".", "a">>)>>} :
          /\ cfg = [Blocklists |-> [s \in Sources |->
                        [Name |-> SourceName(s), Format |-> SourceFormat(s),
                         Enabled |-> e[s]]],
                    Allowlist |-> al]
          /\ allowlistMap = {ToLower(al[i]) : i \in 1..Len(al)}
    /\ domains = 0
    /\ maps = [id \in {0} |-> {}]
    /\ mu = [w |-> FALSE, r |-> {}]
    /\ load = [l \in Loaders |-> IdleLoad]
    /\ task = [l \in Loaders |-> [s \in Sources |-> NoTask]]
    /\ reader = IdleReader
    /\ installed = {}
    /\ InitEnv
    /\ query = <<>>
    /\ blocked = <<>>
    /\ InitServer

\* The map objects still referenced once `live` is the ruleset.
Referenced(live, ld) ==
    {live} \cup {ld[l].newMap : l \in {k \in Loaders : ld[k].pc \notin {"idle", "done"}}}

\* A load that accumulates into the map of a load already under way, if
\* there is one, instead of a map of its own.
MutLoadStartSharedMap(l) ==
    LET others == {k \in Loaders \ {l} : load[k].pc \notin {"idle", "done"}}
        fresh == CHOOSE id \in MapIds : id \notin Referenced(domains, load)
        id == IF others = {} THEN fresh
              ELSE load[CHOOSE k \in others : TRUE].newMap
    IN /\ load[l].pc \in {"idle", "done"}
       /\ maps' = [k \in Referenced(domains, load) \cup {id} |->
                      IF k = id /\ others = {} THEN {} ELSE maps[k]]
       /\ load' = [load EXCEPT ![l] =
                      [IdleLoad EXCEPT !.pc = "range", !.newMap = id, !.i = 1]]
       /\ task' = [task EXCEPT ![l] = [s \in Sources |-> NoTask]]
       /\ flagsSeen' = {}
       /\ UNCHANGED <<domains, allowlistMap, cfg, mu, reader, installed, callVars,
                      dnsVars, cache, upstream, disk, lastCall, appVars>>

\* LoadBlocklists, lines 64-78: newMap := make(...), os.MkdirAll.
LoadStart(l) ==
    /\ load[l].pc \in {"idle", "done"}
    /\ \E mkdirOk \in BOOLEAN :
          IF mkdirOk
          THEN LET id == CHOOSE id \in MapIds : id \notin Referenced(domains, load) IN
               /\ maps' = [k \in Referenced(domains, load) \cup {id} |->
                              IF k = id THEN {} ELSE maps[k]]
               /\ load' = [load EXCEPT ![l] =
                              [IdleLoad EXCEPT !.pc = "range", !.newMap = id, !.i = 1]]
               /\ task' = [task EXCEPT ![l] = [s \in Sources |-> NoTask]]
          ELSE /\ load' = [load EXCEPT ![l] = [IdleLoad EXCEPT !.pc = "done", !.err = TRUE]]
               /\ task' = [task EXCEPT ![l] = [s \in Sources |-> NoTask]]
               /\ UNCHANGED maps
    /\ flagsSeen' = {}
    /\ UNCHANGED <<domains, allowlistMap, cfg, mu, reader, installed, callVars, dnsVars,
                   cache, upstream, disk, lastCall, appVars>>

\* One turn of "for _, source := range m.cfg.Blocklists": a disabled source
\* is skipped, an enabled one gets its goroutine with a copy of the source.
LoadRange(l) ==
    LET i == load[l].i
        source == cfg.Blocklists[i]
    IN /\ load[l].pc = "range"
       /\ task' = IF source.Enabled
                  THEN [task EXCEPT ![l][i] =
                           [NoTask EXCEPT !.pc = "fetch", !.format = source.Format]]
                  ELSE task
       /\ load' = [load EXCEPT ![l].i = i + 1,
                               ![l].pc = IF i + 1 > Len(cfg.Blocklists)
                                         THEN "wait" ELSE "range"]
       /\ UNCHANGED <<mgrVars, cfg, mu, reader, installed, callVars, dnsVars,
                      envVars, appVars>>

\* A goroutine that does not report to the wait group when its fetch fails.
MutTaskFetchLeaksOnError(l, s) ==
    /\ task[l][s].pc = "fetch"
    /\ \E out \in FetchOutcomes(s) :
          IF out.err
          THEN task' = [task EXCEPT ![l][s].pc = "leaked", ![l][s].failed = TRUE]
          ELSE LET p == ParseSource(task[l][s].format, out.content) IN
               task' = [task EXCEPT ![l][s] =
                           [@ EXCEPT !.content = out.content,
                                     !.localMap = p.localMap,
                                     !.count = p.count,
                                     !.pc = IF p.count > 0 THEN "lock" ELSE "done"]]
    /\ UNCHANGED <<mgrVars, cfg, mu, load, reader, installed, callVars, dnsVars,
                   envVars, appVars>>

\* The goroutine of source s, lines 90-135: fetchEx, and on success the scan
\* loop into localMap.
TaskFetch(l, s) ==
    /\ task[l][s].pc = "fetch"
    /\ \E out \in FetchOutcomes(s) :
          IF out.err
          THEN task' = [task EXCEPT ![l][s].pc = "done", ![l][s].failed = TRUE]
          ELSE LET p == ParseSource(task[l][s].format, out.content) IN
               task' = [task EXCEPT ![l][s] =
                           [@ EXCEPT !.content = out.content,
                                     !.localMap = p.localMap,
                                     !.count = p.count,
                                     !.pc = IF p.count > 0 THEN "lock" ELSE "done"]]
    /\ UNCHANGED <<mgrVars, cfg, mu, load, reader, installed, callVars, dnsVars, envVars,
            appVars>>

\* mu.Lock() of the merge, line 139.
TaskLock(l, s) ==
    /\ task[l][s].pc = "lock"
    /\ load[l].mu = 0
    /\ load' = [load EXCEPT ![l].mu = s]
    /\ task' = [task EXCEPT ![l][s].pc = "merge", ![l][s].todo = task[l][s].localMap]
    /\ UNCHANGED <<mgrVars, cfg, mu, reader, installed, callVars, dnsVars,
                   envVars, appVars>>

\* One turn of "for k := range localMap" (in any order), lines 140-147,
\* and mu.Unlock() after the last.
TaskMerge(l, s) ==
    /\ task[l][s].pc = "merge"
    /\ \E k \in task[l][s].todo :
          LET exists == k \in maps[load[l].newMap]
              last == task[l][s].todo = {k}
          IN /\ maps' = [maps EXCEPT ![load[l].newMap] = @ \cup {k}]
             /\ load' = [load EXCEPT
                            ![l].duplicates = IF exists THEN @ + 1 ELSE @,
                            ![l].mu = IF last THEN 0 ELSE @]
             /\ task' = [task EXCEPT ![l][s].todo = @ \ {k},
                                     ![l][s].pc = IF last THEN "stat" ELSE "merge"]
    /\ UNCHANGED <<domains, allowlistMap, cfg, mu, reader, installed, callVars, dnsVars, envVars,
            appVars>>

\* totalProcessed += count under statMu, the "Loaded" log line, wg.Done().
TaskStat(l, s) ==
    /\ task[l][s].pc = "stat"
    /\ load' = [load EXCEPT ![l].totalProcessed = @ + task[l][s].count]
    /\ task' = [task EXCEPT ![l][s].pc = "done"]
    /\ UNCHANGED <<mgrVars, cfg, mu, reader, installed, callVars, dnsVars,
                   envVars, appVars>>

\* A load that gives up when one of its goroutines could not fetch.
MutLoadWaitAbortOnFailure(l) ==
    /\ load[l].pc = "wait"
    /\ \A s \in Sources : task[l][s].pc \in {"none", "done"}
    /\ load' = IF \E s \in Sources : task[l][s].failed
               THEN [load EXCEPT ![l].pc = "done", ![l].err = TRUE]
               ELSE [load EXCEPT ![l].pc = "swap"]
    /\ UNCHANGED <<mgrVars, cfg, mu, task, reader, installed, callVars, dnsVars, envVars,
            appVars>>

\* A load that does not join its goroutines before the swap.
MutLoadWaitNoJoin(l) ==
    /\ load[l].pc = "wait"
    /\ load' = [load EXCEPT ![l].pc = "swap"]
    /\ UNCHANGED <<mgrVars, cfg, mu, task, reader, installed, callVars, dnsVars,
                   envVars, appVars>>

\* wg.Wait() returns once every goroutine of the cycle is done.
LoadWait(l) ==
    /\ load[l].pc = "wait"
    /\ \A s \in Sources : task[l][s].pc \in {"none", "done"}
    /\ load' = [load EXCEPT ![l].pc = "swap"]
    /\ UNCHANGED <<mgrVars, cfg, mu, task, reader, installed, callVars, dnsVars, envVars,
            appVars>>

\* The swap with the write lock not taken.
MutLoadSwapNoLock(l) ==
    /\ load[l].pc = "swap"
    /\ domains' = load[l].newMap
    /\ maps' = [k \in (Referenced(load[l].newMap, load) \cup {domains}) |-> maps[k]]
    /\ installed' = maps[load[l].newMap]
    /\ load' = [load EXCEPT ![l].pc = "report"]
    /\ UNCHANGED <<allowlistMap, cfg, mu, task, reader, callVars, dnsVars,
                   envVars, appVars>>

\* m.mu.Lock(); m.domains = newMap; m.mu.Unlock(), lines 161-163. The old
\* map is garbage from here on.
LoadSwap(l) ==
    /\ load[l].pc = "swap"
    /\ ~mu.w /\ mu.r = {}
    /\ domains' = load[l].newMap
    /\ maps' = [k \in Referenced(load[l].newMap, load) |-> maps[k]]
    /\ installed' = maps[load[l].newMap]
    /\ load' = [load EXCEPT ![l].pc = "report"]
    /\ UNCHANGED <<allowlistMap, cfg, mu, task, reader, callVars, dnsVars,
                   envVars, appVars>>

\* The two closing log lines, 165-166, and return nil.
LoadReport(l) ==
    /\ load[l].pc = "report"
    /\ load' = [load EXCEPT ![l].pc = "done",
                            ![l].total = Cardinality(maps[load[l].newMap])]
    /\ UNCHANGED <<mgrVars, cfg, mu, task, reader, installed, callVars, dnsVars, envVars,
            appVars>>

\* ---------------------------------------------- IsBlocked, step by step
\* m.mu.RLock() and the normalization, lines 234-239.
ReadLock(d) ==
    /\ reader.pc = "idle"
    /\ ~mu.w
    /\ mu' = [mu EXCEPT !.r = @ \cup {"reader"}]
    /\ reader' = [IdleReader EXCEPT !.pc = "allow", !.d = d,
                                    !.domain = Normalize(d), !.snap = installed]
    /\ UNCHANGED <<mgrVars, cfg, load, task, installed, callVars, dnsVars,
                   envVars, appVars>>

\* 0. Check Allowlist, lines 241-244.
ReadAllow ==
    /\ reader.pc = "allow"
    /\ reader' = IF Allowed(allowlistMap, reader.domain)
                 THEN [reader EXCEPT !.pc = "unlock", !.ret = FALSE]
                 ELSE [reader EXCEPT !.pc = "exact"]
    /\ UNCHANGED <<mgrVars, cfg, mu, load, task, installed, callVars, dnsVars, envVars,
            appVars>>

\* 1. Exact Match, lines 246-249: one lookup in m.domains.
ReadExact ==
    /\ reader.pc = "exact"
    /\ reader' = [reader EXCEPT !.seen = Append(@, Live),
                                !.ret = reader.domain \in Live,
                                !.pc = IF reader.domain \in Live
                                       THEN "unlock" ELSE "walk"]
    /\ UNCHANGED <<mgrVars, cfg, mu, load, task, installed, callVars, dnsVars, envVars,
            appVars>>

\* 2. One turn of the walk, lines 254-272: strip a label and look the
\* remainder up in m.domains, or leave the loop.
ReadWalk ==
    LET idx == Index(reader.domain, ".")
        rest == StripLabel(reader.domain, idx)
    IN /\ reader.pc = "walk"
       /\ reader' = IF idx = -1
                    THEN [reader EXCEPT !.pc = "unlock", !.ret = FALSE]
                    ELSE [reader EXCEPT !.domain = rest,
                                        !.seen = Append(@, Live),
                                        !.ret = rest \in Live,
                                        !.pc = IF rest \in Live
                                               THEN "unlock" ELSE "walk"]
       /\ UNCHANGED <<mgrVars, cfg, mu, load, task, installed, callVars, dnsVars, envVars,
            appVars>>

\* The deferred m.mu.RUnlock() and the return.
ReadUnlock ==
    /\ reader.pc = "unlock"
    /\ mu' = [mu EXCEPT !.r = @ \ {"reader"}]
    /\ reader' = [reader EXCEPT !.pc = "idle"]
    /\ UNCHANGED <<mgrVars, cfg, load, task, installed, callVars, dnsVars,
                   envVars, appVars>>

NextLoad ==
    \/ \E l \in OneLoader :
          \/ LoadStart(l)
          \/ LoadRange(l)
          \/ LoadWait(l)
          \/ LoadSwap(l)
          \/ LoadReport(l)
          \/ \E s \in Sources :
                \/ TaskFetch(l, s)
                \/ TaskLock(l, s)
                \/ TaskMerge(l, s)
                \/ TaskStat(l, s)
    \/ \E d \in ReaderQueries : ReadLock(d)
    \/ ReadAllow
    \/ ReadExact
    \/ ReadWalk
    \/ ReadUnlock

SpecLoad == InitLoad /\ [][NextLoad]_vars

\* Two calls of LoadBlocklists side by side (the initial load of the
\* daemon and a reload asked for meanwhile, or two reloads), each with its
\* own newMap, wait group and mutexes.
NextLoad2 ==
    \E l \in Loaders :
        \/ LoadStart(l)
        \/ LoadRange(l)
        \/ LoadWait(l)
        \/ LoadSwap(l)
        \/ LoadReport(l)
        \/ \E s \in Sources :
              \/ TaskFetch(l, s)
              \/ TaskLock(l, s)
              \/ TaskMerge(l, s)
              \/ TaskStat(l, s)

SpecLoad2 == InitLoad /\ [][NextLoad2]_vars

\* ------------------------------------------------------------ DNS server
\* Most questions drawn for one datagram.
MaxQuestions == 2

\* The questions a datagram is built from: a name with and without the
\* trailing root dot, in either case, and the three kinds of Qtype that
\* Server.sinkhole tells apart.
QuestionSet ==
    { [Name |-> <<"a", ".">>, Qtype |-> "A"],
      [Name |-> <<"A", ".", "a">>, Qtype |-> "AAAA"],
      [Name |-> <<"a", "a", ".">>, Qtype |-> "MX"] }

QuestionLists == UNION {[1..k -> QuestionSet] : k \in 0..MaxQuestions}

\* dns.OpcodeQuery and one opcode that is not the standard query.
Opcodes == {"QUERY", "NOTIFY"}

\* The datagram goroutine h is started for; its Id tells the datagrams apart.
Requests(h) ==
    {[Id |-> 10 + h, Opcode |-> o, Question |-> q] : o \in Opcodes, q \in QuestionLists}

\* The ruleset and allowlist the server runs against here: the state after
\* a load of one rule.
ServedRules == {<<"a">>}

\* Msg.SetReply(request) of github.com/miekg/dns, called in handleRequest,
\* sinkhole and forward: the reply takes the request's Id and Opcode, is
\* marked a response with Rcode success, and its question section is the
\* request's FIRST question only (defaults.go: dns.Question =
\* []Question{request.Question[0]} when the request has any).
SetReply(request) ==
    [Id |-> request.Id, Response |-> TRUE, Opcode |-> request.Opcode,
     Rcode |-> "NOERROR",
     Question |-> IF Len(request.Question) > 0
                  THEN <<request.Question[1]>> ELSE <<>>,
     Answer |-> <<>>]

\* handleRequest's lookupName: the question's name minus one trailing dot.
LookupName(name) ==
    IF Len(name) > 0 /\ name[Len(name)] = "."
    THEN SubSeq(name, 1, Len(name) - 1) ELSE name

\* The answer records of Server.sinkhole, in question order.
RECURSIVE SinkholeAnswers(_)
SinkholeAnswers(qs) ==
    IF qs = <<>> THEN <<>>
    ELSE LET q == Head(qs)
             rr == CASE q.Qtype = "A" ->
                           <<[Name |-> q.Name, Type |-> "A", Addr |-> "0.0.0.0"]>>
                     [] q.Qtype = "AAAA" ->
                           <<[Name |-> q.Name, Type |-> "AAAA", Addr |-> "::"]>>
                     [] OTHER -> <<>>
         IN rr \o SinkholeAnswers(Tail(qs))

\* The message Server.sinkhole writes.
SinkholeReply(r) == [SetReply(r) EXCEPT !.Answer = SinkholeAnswers(r.Question)]

\* What the upstream exchange can return: a reply, or an error (timeout,
\* unreachable, transport error). The reply is upstream's own message.
UpstreamReply(r) ==
    [Id |-> r.Id, Response |-> TRUE, Opcode |-> r.Opcode, Rcode |-> "NOERROR",
     Question |-> r.Question, Answer |-> <<"upstream">>]

ExchangeOutcomes(r) == {[err |-> TRUE, resp |-> NoRequest],
                        [err |-> FALSE, resp |-> UpstreamReply(r)]}

\* forward's error branch with the write left out.
MutForwardWritesDropOnError(r, out) ==
    IF out.err THEN <<>> ELSE <<out.resp>>

\* forward's error branch without the server-failure code.
MutForwardWritesNoRcode(r, out) ==
    IF out.err THEN <<SetReply(r)>> ELSE <<out.resp>>

\* The messages Server.forward writes to the requester after the exchange.
ForwardWrites(r, out) ==
    IF out.err
    THEN <<[SetReply(r) EXCEPT !.Rcode = "SERVFAIL"]>>
    ELSE <<out.resp>>

\* atomic.AddUint64(&counter, 1): one indivisible read-modify-write. The
\* counters are 64 bits wide; no run of the model comes near the wrap.
AddUint64(counter) == counter + 1

\* The call of Stats under way, if it is between its two loads, has the
\* counters standing at (q, b) added to its history.
Held(q, b) ==
    IF stats.pc = "blocked" THEN [stats EXCEPT !.held = @ \cup {<<q, b>>}] ELSE stats

\* Goroutine h moves on to frame f; the handler touches neither the
\* manager's state nor the caller of the classifier.
Set(h, f) ==
    /\ handler' = [handler EXCEPT ![h] = f]
    /\ UNCHANGED <<mgrVars, callVars, loadVars, envVars, appVars>>

\* The UDP server starts handleRequest(w, r) in goroutine h.
Receive(h, r) ==
    /\ handler[h].pc = "idle"
    /\ Set(h, [handler[h] EXCEPT !.pc = "opcode", !.r = r])
    /\ UNCHANGED <<statsQueries, statsBlocked, stats>>

\* handleRequest with the total counter incremented above the opcode test.
MutCheckOpcodeCountFirst(h) ==
    /\ handler[h].pc = "opcode"
    /\ statsQueries' = AddUint64(statsQueries)
    /\ IF handler[h].r.Opcode # "QUERY"
       THEN Set(h, [handler[h] EXCEPT !.pc = "forward"])
       ELSE Set(h, [handler[h] EXCEPT !.pc = "loop", !.i = 1,
                                      !.inc.queries = @ + 1])
    /\ UNCHANGED statsBlocked
    /\ stats' = Held(statsQueries', statsBlocked')

\* handleRequest with the total counter incremented once per question.
MutCheckOpcodePerQuestion(h) ==
    /\ handler[h].pc = "opcode"
    /\ IF handler[h].r.Opcode # "QUERY"
       THEN /\ Set(h, [handler[h] EXCEPT !.pc = "forward"])
            /\ UNCHANGED statsQueries
       ELSE /\ statsQueries' = statsQueries + Len(handler[h].r.Question)
            /\ Set(h, [handler[h] EXCEPT !.pc = "loop", !.i = 1,
                                         !.inc.queries = @ + 1])
    /\ UNCHANGED statsBlocked
    /\ stats' = Held(statsQueries', statsBlocked')

\* handleRequest up to the question loop: a datagram that is no standard
\* query goes to forward; otherwise the total counter is incremented.
CheckOpcode(h) ==
    /\ handler[h].pc = "opcode"
    /\ IF handler[h].r.Opcode # "QUERY"
       THEN /\ Set(h, [handler[h] EXCEPT !.pc = "forward"])
            /\ UNCHANGED statsQueries
       ELSE /\ statsQueries' = AddUint64(statsQueries)
            /\ Set(h, [handler[h] EXCEPT !.pc = "loop", !.i = 1,
                                         !.inc.queries = @ + 1])
    /\ UNCHANGED statsBlocked
    /\ stats' = Held(statsQueries', statsBlocked')

\* The head of the question loop: the range ends, or question i is
\* classified by Manager.IsBlocked(lookupName).
Classify(h) ==
    LET f == handler[h] IN
    /\ f.pc = "loop"
    /\ IF f.i > Len(f.r.Question)
       THEN Set(h, [f EXCEPT !.pc = "forward"])
       ELSE LET lookupName == LookupName(f.r.Question[f.i].Name) IN
            Set(h, [f EXCEPT
                !.cls = Append(@, lookupName),
                !.pc = IF IsBlockedIn(Live, allowlistMap, lookupName)
                       THEN "countBlocked" ELSE "logAllowed"])
    /\ UNCHANGED <<statsQueries, statsBlocked, stats>>

\* The blocked counter incremented twice for one sinkholed datagram.
MutCountBlockedTwice(h) ==
    /\ handler[h].pc = "countBlocked"
    /\ statsBlocked' = AddUint64(AddUint64(statsBlocked))
    /\ Set(h, [handler[h] EXCEPT !.pc = "logBlocked", !.inc.blocked = @ + 1])
    /\ UNCHANGED statsQueries
    /\ stats' = Held(statsQueries', statsBlocked')

\* atomic.AddUint64(&s.statsBlocked, 1)
CountBlocked(h) ==
    /\ handler[h].pc = "countBlocked"
    /\ statsBlocked' = AddUint64(statsBlocked)
    /\ Set(h, [handler[h] EXCEPT !.pc = "logBlocked", !.inc.blocked = @ + 1])
    /\ UNCHANGED statsQueries
    /\ stats' = Held(statsQueries', statsBlocked')

\* s.logFunc("[BLOCKED] " + lookupName), the logger being set.
LogBlocked(h) ==
    LET f == handler[h] IN
    /\ f.pc = "logBlocked"
    /\ Set(h, [f EXCEPT !.pc = "sinkhole",
                        !.log = Append(@, <<"BLOCKED", f.cls[Len(f.cls)]>>)])
    /\ UNCHANGED <<statsQueries, statsBlocked, stats>>

\* s.sinkhole(w, r) without the return: the loop goes on.
MutSinkholeNoReturn(h) ==
    LET f == handler[h] IN
    /\ f.pc = "sinkhole"
    /\ Set(h, [f EXCEPT !.pc = "loop", !.i = @ + 1,
                        !.w = Append(@, SinkholeReply(f.r))])
    /\ UNCHANGED <<statsQueries, statsBlocked, stats>>

\* s.sinkhole(w, r); return
Sinkhole(h) ==
    LET f == handler[h] IN
    /\ f.pc = "sinkhole"
    /\ Set(h, [f EXCEPT !.pc = "done", !.w = Append(@, SinkholeReply(f.r))])
    /\ UNCHANGED <<statsQueries, statsBlocked, stats>>

\* s.logFunc("[ALLOWED] " + lookupName), then the next question.
LogAllowed(h) ==
    LET f == handler[h] IN
    /\ f.pc = "logAllowed"
    /\ Set(h, [f EXCEPT !.pc = "loop", !.i = @ + 1,
                        !.log = Append(@, <<"ALLOWED", f.cls[Len(f.cls)]>>)])
    /\ UNCHANGED <<statsQueries, statsBlocked, stats>>

\* forward trying upstream a second time when the first exchange fails.
MutForwardRetries(h) ==
    LET f == handler[h] IN
    /\ f.pc = "forward"
    /\ \E out \in ExchangeOutcomes(f.r), again \in ExchangeOutcomes(f.r) :
          Set(h, [f EXCEPT
              !.pc = "done",
              !.up = IF out.err
                     THEN @ \o <<[msg |-> f.r, err |-> TRUE],
                                 [msg |-> f.r, err |-> again.err]>>
                     ELSE Append(@, [msg |-> f.r, err |-> FALSE]),
              !.w = @ \o ForwardWrites(f.r, IF out.err THEN again ELSE out)])
    /\ UNCHANGED <<statsQueries, statsBlocked, stats>>

\* s.forward(w, r): one exchange with upstream, then one write.
Forward(h) ==
    LET f == handler[h] IN
    /\ f.pc = "forward"
    /\ \E out \in ExchangeOutcomes(f.r) :
          Set(h, [f EXCEPT !.pc = "done",
                           !.up = Append(@, [msg |-> f.r, err |-> out.err]),
                           !.w = @ \o ForwardWrites(f.r, out)])
    /\ UNCHANGED <<statsQueries, statsBlocked, stats>>

InitDNS ==
    /\ domains = 0
    /\ maps = [id \in {0} |-> ServedRules]
    /\ allowlistMap = {}
    /\ InitLoader
    /\ query = <<>>
    /\ blocked = <<>>
    /\ InitServer
    /\ InitLoader

NextDNS ==
    \E h \in Handlers :
        \/ \E r \in Requests(h) : Receive(h, r)
        \/ CheckOpcode(h)
        \/ Classify(h)
        \/ CountBlocked(h)
        \/ LogBlocked(h)
        \/ Sinkhole(h)
        \/ LogAllowed(h)
        \/ Forward(h)

SpecDNS == InitDNS /\ [][NextDNS]_vars

\* ------------------------------------------------------------ Server.Stats
\* Stats, first operand of its return statement:
\* atomic.LoadUint64(&s.statsQueries). Go evaluates the two calls of the
\* return statement from left to right, each an indivisible load, and a
\* handler can run between them.
StatsLoadQueries ==
    /\ stats.pc \in {"idle", "done"}
    /\ stats' = [pc |-> "blocked", q |-> statsQueries, b |-> 0,
                 held |-> {<<statsQueries, statsBlocked>>}]
    /\ UNCHANGED <<statsQueries, statsBlocked, handler, mgrVars, callVars,
                   loadVars, envVars, appVars>>

\* Second operand: atomic.LoadUint64(&s.statsBlocked), and the return of
\* the pair.
StatsLoadBlocked ==
    /\ stats.pc = "blocked"
    /\ stats' = [stats EXCEPT !.pc = "done", !.b = statsBlocked]
    /\ UNCHANGED <<statsQueries, statsBlocked, handler, mgrVars, callVars,
                   loadVars, envVars, appVars>>

\* Status reporting calls Stats while the handlers run.
NextStats ==
    \/ NextDNS
    \/ StatsLoadQueries
    \/ StatsLoadBlocked

SpecStats == InitDNS /\ [][NextStats]_vars

\* ------------------------------------------------------------ the locks
\* The locks: Manager.mu, Server.mu and AppService.logMu are sync.RWMutex;
\* mu and statMu are the sync.Mutex locals of one LoadBlocklists call.
RWLocks == {"m.mu", "s.mu", "logMu"}

\* A logging callback that asks the manager for its rule count
\* (Manager.Stats takes m.mu.RLock) while it logs.
MutLogOpsReadsManager ==
    <<<<"Lock", "logMu">>, <<"RLock", "m.mu">>, <<"RUnlock", "m.mu">>,
      <<"Unlock", "logMu">>>>

\* The lock operations of the callback logFunc set by runDaemon, in order:
\* AppService.Log holds logMu.Lock from entry to return; the write to the
\* log file takes none of the locks.
LogOps == <<<<"Lock", "logMu">>, <<"Unlock", "logMu">>>>

\* Manager.log: the callback is called under m.mu.RLock.
mLogOps == <<<<"RLock", "m.mu">>>> \o LogOps \o <<<<"RUnlock", "m.mu">>>>

\* The lock operations of each function, in order. handleRequest: IsBlocked
\* and a log line, for one question; the source goroutine: a log line
\* (of the two before the merge), the merge, a log line; Reload: its own log lines around LoadBlocklists, which
\* starts the goroutines, waits for them, swaps and logs twice;
\* ToggleSource, AddAllowed and RemoveAllowed of the service are alike.
Program(op) ==
    CASE op = "handleRequest" ->
            <<<<"RLock", "m.mu">>, <<"RUnlock", "m.mu">>, <<"RLock", "s.mu">>>>
                \o LogOps \o <<<<"RUnlock", "s.mu">>>>
      [] op = "goroutine" ->
            mLogOps
                \o <<<<"Lock", "mu">>, <<"Lock", "statMu">>, <<"Unlock", "statMu">>,
                     <<"Unlock", "mu">>, <<"Lock", "statMu">>, <<"Unlock", "statMu">>>>
                \o mLogOps
      [] op = "Reload" ->
            LogOps \o <<<<"go", "wg">>, <<"Wait", "wg">>,
                        <<"Lock", "m.mu">>, <<"Unlock", "m.mu">>>>
                \o mLogOps \o mLogOps \o LogOps
      [] op = "ToggleSource" -> LogOps \o <<<<"Lock", "m.mu">>, <<"Unlock", "m.mu">>>>
      [] op = "Manager.SetLogger" -> <<<<"Lock", "m.mu">>, <<"Unlock", "m.mu">>>>
      [] op = "Server.SetLogger" -> <<<<"Lock", "s.mu">>, <<"Unlock", "s.mu">>>>
      [] op = "GetRecentLogs" -> <<<<"RLock", "logMu">>, <<"RUnlock", "logMu">>>>
      [] OTHER -> <<>>

\* The functions each goroutine can be called to run.
Calls(t) ==
    CASE t = "handler" -> {"handleRequest"}
      [] t = "reload" -> {"Reload"}
      [] t = "api1" -> {"ToggleSource", "GetRecentLogs"}
      [] t = "api2" -> {"Manager.SetLogger", "Server.SetLogger"}
      [] OTHER -> {}

\* The lock operation goroutine t is at; <<"return", "">> past the last.
Ins(t) ==
    IF lk[t].pc < Len(Program(lk[t].op))
    THEN Program(lk[t].op)[lk[t].pc + 1] ELSE <<"return", "">>

\* Who holds lock x, in whatever mode, and who holds it as the writer.
Holders(x) == {t \in Threads : \E h \in lk[t].held : h[1] = x}
Writers(x) == {t \in Threads : <<x, "w">> \in lk[t].held}

\* The writers waiting in x.Lock(): sync.RWMutex lets no new reader in
\* while a writer waits.
Asking(x) == {t \in Threads : lk[t].asked /\ Ins(t) = <<"Lock", x>>}

\* Whether goroutine t can take its next step.
Ready(t) ==
    LET ins == Ins(t) IN
    CASE ins[1] = "RLock" -> Writers(ins[2]) = {} /\ Asking(ins[2]) = {}
      [] ins[1] = "Lock" -> (ins[2] \in RWLocks /\ ~lk[t].asked) \/ Holders(ins[2]) = {}
      [] ins[1] = "Wait" -> \A g \in {"task1", "task2"} : lk[g].op = "none"
      [] ins[1] = "return" -> lk[t].op # "none"
      [] OTHER -> TRUE

LockFrame == UNCHANGED <<mgrVars, callVars, dnsVars, loadVars, envVars, svc, boot, etc>>

\* Goroutine t is called to run op.
Enter(t, op) ==
    /\ lk[t].op = "none"
    /\ lk' = [lk EXCEPT ![t].op = op]
    /\ LockFrame

\* x.Lock() of a sync.RWMutex, first half: the writer is registered and
\* from now on keeps new readers out.
Ask(t) ==
    /\ Ins(t)[1] = "Lock" /\ Ins(t)[2] \in RWLocks /\ ~lk[t].asked
    /\ lk' = [lk EXCEPT ![t].asked = TRUE]
    /\ LockFrame

\* x.RLock() returns, or x.Lock() does.
Take(t) ==
    /\ Ins(t)[1] \in {"RLock", "Lock"}
    /\ Ins(t)[2] \in RWLocks => (Ins(t)[1] = "Lock") = lk[t].asked
    /\ Ready(t)
    /\ lk' = [lk EXCEPT ![t].pc = @ + 1, ![t].asked = FALSE,
                        ![t].held = @ \cup {<<Ins(t)[2],
                                              IF Ins(t)[1] = "Lock" THEN "w" ELSE "r">>}]
    /\ LockFrame

\* x.RUnlock() or x.Unlock().
Drop(t) ==
    /\ Ins(t)[1] \in {"RUnlock", "Unlock"}
    /\ lk' = [lk EXCEPT ![t].pc = @ + 1,
                        ![t].held = {h \in @ : h[1] # Ins(t)[2]}]
    /\ LockFrame

\* The range loop of LoadBlocklists: wg.Add(1) and "go func" per source.
Go(t) ==
    /\ Ins(t)[1] = "go"
    /\ lk' = [lk EXCEPT ![t].pc = @ + 1,
                        !["task1"].op = "goroutine", !["task2"].op = "goroutine"]
    /\ LockFrame

\* wg.Wait() returns: every goroutine of the load has ended.
Wait(t) ==
    /\ Ins(t)[1] = "Wait"
    /\ Ready(t)
    /\ lk' = [lk EXCEPT ![t].pc = @ + 1]
    /\ LockFrame

\* The function returns (a source goroutine: wg.Done()).
Leave(t) ==
    /\ lk[t].op # "none"
    /\ Ins(t)[1] = "return"
    /\ lk' = [lk EXCEPT ![t] = IdleThread]
    /\ LockFrame

NextLocks ==
    \E t \in Threads :
        \/ \E op \in Calls(t) : Enter(t, op)
        \/ Ask(t)
        \/ Take(t)
        \/ Drop(t)
        \/ Go(t)
        \/ Wait(t)
        \/ Leave(t)

SpecLocks == InitDNS /\ [][NextLocks]_vars

\* ----------------------------------------------- loads and datagrams
\* The datagrams handled while a load runs: a standard query for a name the
\* sources block, for a name they do not, and one that is no query.
LiveRequests ==
    {[Id |-> 11, Opcode |-> "QUERY",
      Question |-> <<[Name |-> <<"a", ".">>, Qtype |-> "A"]>>],
     [Id |-> 11, Opcode |-> "QUERY",
      Question |-> <<[Name |-> <<"A", ".">>, Qtype |-> "MX"]>>],
     [Id |-> 11, Opcode |-> "NOTIFY", Question |-> <<>>]}

\* The steps of the goroutine that called LoadBlocklists, after the call.
LoadSteps(l) == LoadRange(l) \/ LoadWait(l) \/ LoadSwap(l) \/ LoadReport(l)

\* The steps of the goroutine of source s.
TaskSteps(l, s) == TaskFetch(l, s) \/ TaskLock(l, s) \/ TaskMerge(l, s) \/ TaskStat(l, s)

\* The steps of a handler, after the datagram has come in.
HandlerSteps(h) ==
    \/ CheckOpcode(h)
    \/ Classify(h)
    \/ CountBlocked(h)
    \/ LogBlocked(h)
    \/ Sinkhole(h)
    \/ LogAllowed(h)
    \/ Forward(h)

\* One caller of LoadBlocklists, cycle after cycle, and one handler taking a
\* datagram while it runs.
NextLive ==
    \/ \E l \in OneLoader :
          \/ LoadStart(l)
          \/ LoadSteps(l)
          \/ \E s \in Sources : TaskSteps(l, s)
    \/ \E r \in LiveRequests : Receive(1, r)
    \/ HandlerSteps(1)

\* Scheduling: every goroutine that can take a step gets to take one (the
\* Go scheduler), and with that every fetch and every upstream exchange
\* returns: both run under a timeout (120 s, 2 s). Nothing makes callers
\* call LoadBlocklists or datagrams arrive.
SpecLive ==
    /\ InitLoad
    /\ [][NextLive]_vars
    /\ \A l \in OneLoader :
          /\ WF_vars(LoadSteps(l))
          /\ \A s \in Sources : WF_vars(TaskSteps(l, s))
    /\ WF_vars(HandlerSteps(1))

\* ------------------------------------------------------ the service's log
\* The lines callers hand to Log: line n is the n-th logged, so that every
\* line differs from every other (the time stamp Log puts in front repeats
\* within a second and is left out).
NextLine == svc.logged + 1

\* The counts GetRecentLogs is called with.
Counts == {1, 2, logLimit - 1, logLimit, logLimit + 1}

\* Log with the prune keeping the first logLimit lines.
MutPruneKeepOldest(lines) ==
    IF Len(lines) > logLimit THEN SubSeq(lines, 1, logLimit) ELSE lines

\* "if len(s.logLines) > s.logLimit { s.logLines = s.logLines[len-limit:] }"
Prune(lines) ==
    IF Len(lines) > logLimit
    THEN SubSeq(lines, Len(lines) - logLimit + 1, Len(lines))
    ELSE lines

\* The service s after Log(msg): the line appended, the ring pruned.
Logged(s, msg) ==
    [s EXCEPT !.logLines = Prune(Append(@, msg)), !.logged = @ + 1]

\* AppService.Log(msg), whole: the method holds logMu.Lock from entry to
\* return, so concurrent calls run one after the other in some order.
Log(msg) ==
    /\ svc.logged < MaxLogs
    /\ svc' = Logged(svc, msg)
    /\ UNCHANGED <<mgrVars, callVars, dnsVars, loadVars, envVars, boot, etc, lk>>

\* GetRecentLogs returning the oldest lines retained.
MutRecentFromFront(lines, count) ==
    LET n == IF count <= 0 \/ count > Len(lines) THEN Len(lines) ELSE count
    IN SubSeq(lines, 1, n)

\* The slice GetRecentLogs copies: the last count lines, or all of them
\* when count is not positive or more than there are.
Recent(lines, count) ==
    LET n == IF count <= 0 \/ count > Len(lines) THEN Len(lines) ELSE count
    IN SubSeq(lines, Len(lines) - n + 1, Len(lines))

\* AppService.GetRecentLogs(count), whole, under logMu.RLock: dst is a
\* fresh array the lines are copied into.
GetRecentLogs(count) ==
    /\ svc' = [svc EXCEPT !.got = [count |-> count, at |-> svc.logged,
                                   ret |-> Recent(svc.logLines, count)]]
    /\ UNCHANGED <<mgrVars, callVars, dnsVars, loadVars, envVars, boot, etc, lk>>

NextLog ==
    \/ Log(NextLine)
    \/ \E count \in Counts : GetRecentLogs(count)

SpecLog == InitDNS /\ [][NextLog]_vars

\* ------------------------------------------------- the classifier, alone
\* Names a load can put into the ruleset: lowercase, one trailing dot
\* stripped (LoadBlocklists lines 121-127), so any lowercase string.
RuleNames == Strs({"a", "."}, MaxLen - 2)

RuleSets == {R \in SUBSET RuleNames : Cardinality(R) <= MaxRules}

\* allowlistMap holds lowercased entries (syncAllowlistMap, AddAllowed).
AllowSets == {{}} \cup {{x} : x \in RuleNames}

Queries == Strs(NameChars, MaxLen)

InitClassify ==
    /\ domains = 0
    /\ maps \in [{0} -> RuleSets]
    /\ allowlistMap \in AllowSets
    /\ query = <<>>
    /\ blocked = <<>>
    /\ InitServer
    /\ InitLoader

\* A call of Manager.IsBlocked(d) while nothing else runs.
IsBlocked(d) ==
    /\ blocked = <<>>
    /\ query' = d
    /\ blocked' = <<IsBlockedIn(Live, allowlistMap, d)>>
    /\ UNCHANGED <<mgrVars, dnsVars, loadVars, envVars, appVars>>

\* The caller takes the result; the next call may follow.
Return ==
    /\ blocked # <<>>
    /\ query' = <<>>
    /\ blocked' = <<>>
    /\ UNCHANGED <<mgrVars, dnsVars, loadVars, envVars, appVars>>

NextClassify == (\E d \in Queries : IsBlocked(d)) \/ Return

SpecClassify == InitClassify /\ [][NextClassify]_vars

\* ------------------------------------------------- parseHostsLine alone
\* Longest line of those spelled out character by character.
MaxLine == 4

\* The characters of those lines.
LineChars == {"0", "a", "A", " ", "#", "."}

\* The lines parseHostsLine is called with: every line of up to MaxLine
\* characters, and the lines "<blanks><address><blanks><domain><rest>".
HostsLines ==
    Strs(LineChars, MaxLine) \cup
    {lead \o addr \o sep \o dom \o rest :
        lead \in {<<>>, <<" ">>},
        addr \in NullRoutes \cup {<<"0", ".", "0">>, <<"1">>, <<":", ":">>, <<"a">>},
        sep \in {<<>>, <<" ">>, <<" ", " ">>},
        dom \in {<<"a">>, <<"A", ".", "a">>, <<"a", ".">>},
        rest \in {<<>>, <<" ">>, <<"#", "a">>, <<" ", "#", " ", "a">>, <<" ", "a">>}}

\* Before a call of parseHostsLine(line): nothing loaded, nothing served.
InitParse ==
    /\ domains = 0
    /\ maps = [id \in {0} |-> {}]
    /\ allowlistMap = {}
    /\ cfg = EmptyCfg
    /\ mu = [w |-> FALSE, r |-> {}]
    /\ load = [l \in Loaders |-> IdleLoad]
    /\ task = [l \in Loaders |-> [s \in Sources |-> NoTask]]
    /\ reader = IdleReader
    /\ installed = {}
    /\ cache = [s \in Sources |-> NoEntry]
    /\ upstream = [s \in Sources |-> <<>>]
    /\ disk = NoFile
    /\ flagsSeen = {}
    /\ query = <<>>
    /\ blocked = <<>>
    /\ InitServer
    /\ \E line \in HostsLines : lastCall = [NoCall EXCEPT !.arg = <<line>>]

\* The call parseHostsLine(line) and its return.
ParseCall ==
    /\ lastCall.op = "none"
    /\ lastCall' = Call("parseHostsLine", lastCall.arg, FALSE,
                        parseHostsLine(lastCall.arg[1]))
    /\ UNCHANGED <<mgrVars, callVars, dnsVars, loadVars, cache, upstream, disk,
                   flagsSeen, appVars>>

SpecParse == InitParse /\ [][ParseCall]_vars

\* ------------------------------------------------ the system's resolver
\* Most endings of the daemon without RestoreDNS in a run.
MaxCrashes == 2

\* /etc/resolv.conf as the daemon can find it: the system's own, or one
\* that names another local resolver.
ResolvConfs == {"nameserver 192.0.2.1\n", "nameserver 127.0.0.53\noptions edns0\n"}

\* resolved.conf as the daemon can find it, line by line (lines without
\* blanks around them).
ResolvedConfs ==
    {<<"[Resolve]">>,
     <<"[Resolve]", "DNSStubListener=yes", "DNS=192.0.2.1">>,
     <<"[Resolve]", "DNSStubListener=no">>,
     <<"DNSStubListener=yes", "# no section">>}

\* strings.HasPrefix(trim, "DNSStubListener=") for the lines there are.
StubLines == {"DNSStubListener=yes", "DNSStubListener=no"}

\* The loop of patchResolvedConf over the lines from the i-th on:
\* newLines, and whether a stub line was replaced.
RECURSIVE PatchLines(_, _, _)
PatchLines(lines, i, inResolve) ==
    IF i > Len(lines) THEN [newLines |-> <<>>, stubFound |-> FALSE]
    ELSE IF lines[i] = "[Resolve]"
    THEN LET rest == PatchLines(lines, i + 1, TRUE) IN
         [rest EXCEPT !.newLines = <<lines[i]>> \o @]
    ELSE LET rest == PatchLines(lines, i + 1, inResolve) IN
         IF inResolve /\ lines[i] \in StubLines
         THEN [newLines |-> <<"DNSStubListener=no">> \o rest.newLines,
               stubFound |-> TRUE]
         ELSE [rest EXCEPT !.newLines = <<lines[i]>> \o @]

\* patchResolvedConf: the file with its stub listener switched off.
patchResolvedConf(lines) ==
    LET p == PatchLines(lines, 1, FALSE) IN
    IF p.stubFound THEN p.newLines
    ELSE p.newLines \o <<"", "[Resolve]", "DNSStubListener=no">>

\* The files after RestoreDNS: each copy that is there is written back
\* and removed.
Restored(e) ==
    [e EXCEPT !.resolv = IF e.orig # <<>> THEN e.orig[1] ELSE @,
              !.orig = <<>>,
              !.resolved = IF e.backup # <<>> THEN e.backup[1] ELSE @,
              !.backup = <<>>]

OSFrame == UNCHANGED <<mgrVars, callVars, dnsVars, loadVars, cache, upstream, disk,
                       flagsSeen, svc, boot, lk>>

\* The daemon starts (as root, the files readable and writable) and calls
\* UnlockPort: backup() copies resolved.conf unless the copy is there
\* already, patchResolvedConf rewrites it, systemd-resolved is restarted.
UnlockPort ==
    /\ etc.pc = "down"
    /\ etc' = [etc EXCEPT !.pc = "unlocked",
                          !.backup = IF @ = <<>> THEN <<etc.resolved>> ELSE @,
                          !.resolved = patchResolvedConf(@),
                          !.unlocks = @ + 1]
    /\ lastCall' = Call("UnlockPort", <<>>, FALSE, <<>>)
    /\ OSFrame

\* SetupDNS: /etc/resolv.conf as it stands is written to the copy, and
\* only if that write worked the file is overwritten. Returns nil.
SetupDNS ==
    /\ etc.pc = "unlocked"
    /\ \E copied \in BOOLEAN :
          etc' = IF copied
                 THEN [etc EXCEPT !.pc = "set", !.orig = <<etc.resolv>>,
                                  !.resolv = ManagedResolvConf, !.setups = @ + 1]
                 ELSE [etc EXCEPT !.pc = "set", !.setups = @ + 1]
    /\ lastCall' = Call("SetupDNS", <<>>, FALSE, <<>>)
    /\ OSFrame

\* RestoreDNS: at the daemon's regular end, or by the restore command
\* while no daemon runs. What the files are afterwards is what they "were"
\* for the setups to come.
RestoreDNS ==
    /\ etc.pc \in {"set", "down"}
    /\ LET e == Restored(etc) IN
       etc' = [e EXCEPT !.pc = "down", !.unlocks = 0, !.setups = 0,
                        !.was = [resolv |-> e.resolv, resolved |-> e.resolved]]
    /\ lastCall' = Call("RestoreDNS", <<>>, FALSE, <<>>)
    /\ OSFrame

\* The daemon ends without RestoreDNS: it is killed, the machine loses
\* power, or runDaemon leaves through os.Exit(1).
Crash ==
    /\ etc.pc \in {"unlocked", "set"}
    /\ etc.crashes < MaxCrashes
    /\ etc' = [etc EXCEPT !.pc = "down", !.crashes = @ + 1]
    /\ lastCall' = Call("exit", <<>>, TRUE, <<>>)
    /\ OSFrame

\* A system with its files as found, no daemon running, nothing loaded.
InitOS ==
    /\ \E resolv \in ResolvConfs, resolved \in ResolvedConfs :
          etc = Etc(resolv, resolved)
    /\ svc = NewAppService
    /\ boot = NoBoot
    /\ lk = [t \in Threads |-> IdleThread]
    /\ statsQueries = 0
    /\ statsBlocked = 0
    /\ handler = [h \in Handlers |->
                    [pc |-> "idle", r |-> NoRequest, i |-> 0, w |-> <<>>,
                     up |-> <<>>, cls |-> <<>>, log |-> <<>>,
                     inc |-> [queries |-> 0, blocked |-> 0]]]
    /\ stats = IdleStats
    /\ domains = 0
    /\ maps = [id \in {0} |-> {}]
    /\ allowlistMap = {}
    /\ query = <<>>
    /\ blocked = <<>>
    /\ InitLoader

NextOS == UnlockPort \/ SetupDNS \/ RestoreDNS \/ Crash

SpecOS == InitOS /\ [][NextOS]_vars

\* ------------------------------------------- the manager, call by call
\* The names ToggleSource is called with: the two configured ones and one
\* that no source has.
ToggleNames == {SourceName(1), SourceName(2), "no-such-list"}

\* A search that settles on the first source when the name matches none.
MutFindSourceFirstOnMiss(blocklists, name) ==
    IF \E i \in 1..Len(blocklists) : blocklists[i].Name = name
    THEN CHOOSE i \in 1..Len(blocklists) :
            /\ blocklists[i].Name = name
            /\ \A j \in 1..(i - 1) : blocklists[j].Name # name
    ELSE 1

\* "for i, src := range m.cfg.Blocklists { if src.Name == name": the
\* position of the first source of that name, 0 when the loop runs out.
FindSource(blocklists, name) ==
    IF \E i \in 1..Len(blocklists) : blocklists[i].Name = name
    THEN CHOOSE i \in 1..Len(blocklists) :
            /\ blocklists[i].Name = name
            /\ \A j \in 1..(i - 1) : blocklists[j].Name # name
    ELSE 0

\* An assignment that reaches the flag of every source.
MutSetEnabledAll(blocklists, i, enabled) ==
    [j \in 1..Len(blocklists) |-> [blocklists[j] EXCEPT !.Enabled = enabled]]

\* m.cfg.Blocklists[i].Enabled = enabled
SetEnabled(blocklists, i, enabled) ==
    [blocklists EXCEPT ![i].Enabled = enabled]

\* Manager.ToggleSource(name, enabled), whole: the method holds m.mu.Lock
\* from entry to return. The flag is assigned before config.Save is called
\* and stays assigned when Save fails.
ToggleSource(name, enabled) ==
    /\ ~mu.w /\ mu.r = {}
    /\ LET i == FindSource(cfg.Blocklists, name) IN
       IF i = 0
       THEN /\ lastCall' = Call("ToggleSource", <<name, enabled>>, TRUE, <<>>)
            /\ UNCHANGED <<cfg, disk, flagsSeen>>
       ELSE \E how \in SaveOutcomes :
               LET c == [cfg EXCEPT !.Blocklists = SetEnabled(@, i, enabled)]
                   saved == Save(c, disk, how)
               IN /\ cfg' = c
                  /\ disk' = saved.disk
                  /\ lastCall' = Call("ToggleSource", <<name, enabled>>,
                                      saved.err, <<>>)
                  /\ flagsSeen' =
                        IF \E l \in Loaders : load[l].pc \notin {"idle", "done"}
                        THEN flagsSeen \cup {EnabledSet(cfg.Blocklists),
                                             EnabledSet(c.Blocklists)}
                        ELSE flagsSeen
    /\ UNCHANGED <<mgrVars, mu, load, task, reader, installed, cache, upstream,
                   callVars, dnsVars, appVars>>

\* What the goroutine of source s can get from fetchEx, or that the range
\* loop passes s over.
SourceFetches(s) ==
    IF cfg.Blocklists[s].Enabled
    THEN fetchEx(cache[s], upstream[s])
    ELSE {NoFetch(cache[s])}

\* LoadBlocklists installing its still empty map when the cache directory
\* cannot be created.
MutLoadCycleClearsOnFailure ==
    \E mkdirOk \in BOOLEAN :
           IF ~mkdirOk
           THEN /\ lastCall' = Call("LoadBlocklists", <<>>, TRUE,
                                     [fetch |-> [s \in Sources |-> NoFetch(cache[s])],
                                      total |-> 0])
                /\ maps' = [maps EXCEPT ![domains] = {}]
                /\ installed' = {}
                /\ UNCHANGED <<domains, allowlistMap, cache>>
           ELSE \E r1 \in SourceFetches(1), r2 \in SourceFetches(2) :
                   LET fetched == [s \in Sources |-> IF s = 1 THEN r1 ELSE r2]
                       merged == {s \in EnabledSet(cfg.Blocklists) : ~fetched[s].err}
                       newMap == UNION {ParseSource(cfg.Blocklists[s].Format,
                                                    fetched[s].content).localMap :
                                           s \in merged}
                   IN /\ maps' = [maps EXCEPT ![domains] = newMap]
                      /\ installed' = newMap
                      /\ cache' = [s \in Sources |-> fetched[s].entry]
                      /\ lastCall' = Call("LoadBlocklists", <<>>, FALSE,
                                          [fetch |-> fetched,
                                           total |-> Cardinality(newMap)])
                      /\ UNCHANGED <<domains, allowlistMap>>

\* Manager.LoadBlocklists from call to return, while nothing else runs: each
\* enabled source is fetched through the cache and parsed, the domains of
\* those fetched are merged into a new map, and the map is made the live
\* one. The only error returned is that of os.MkdirAll.
LoadCycle ==
    \E mkdirOk \in BOOLEAN :
           IF ~mkdirOk
           THEN /\ lastCall' = Call("LoadBlocklists", <<>>, TRUE,
                                     [fetch |-> [s \in Sources |-> NoFetch(cache[s])],
                                      total |-> 0])
                /\ UNCHANGED <<mgrVars, installed, cache>>
           ELSE \E r1 \in SourceFetches(1), r2 \in SourceFetches(2) :
                   LET fetched == [s \in Sources |-> IF s = 1 THEN r1 ELSE r2]
                       merged == {s \in EnabledSet(cfg.Blocklists) : ~fetched[s].err}
                       newMap == UNION {ParseSource(cfg.Blocklists[s].Format,
                                                    fetched[s].content).localMap :
                                           s \in merged}
                   IN /\ maps' = [maps EXCEPT ![domains] = newMap]
                      /\ installed' = newMap
                      /\ cache' = [s \in Sources |-> fetched[s].entry]
                      /\ lastCall' = Call("LoadBlocklists", <<>>, FALSE,
                                          [fetch |-> fetched,
                                           total |-> Cardinality(newMap)])
                      /\ UNCHANGED <<domains, allowlistMap>>

\* A call of Manager.LoadBlocklists by itself.
LoadBlocklists ==
    /\ LoadCycle
    /\ UNCHANGED <<cfg, mu, load, task, reader, upstream, disk, flagsSeen,
                   callVars, dnsVars, appVars>>

\* Most calls of Reload in a run.
MaxReloads == 2

\* AppService.Reload, whole: a log line, LoadBlocklists on the manager as
\* it stands ("TODO: Reload config from disk"), a log line with the result.
Reload ==
    /\ svc.logged < 2 * MaxReloads
    /\ LoadCycle
    /\ svc' = Logged(Logged(svc, "Reloading configuration and blocklists..."),
                     IF lastCall'.err THEN "Reload failed" ELSE "Reload complete.")
    /\ UNCHANGED <<cfg, mu, load, task, reader, upstream, disk, flagsSeen,
                   callVars, dnsVars, boot, etc, lk>>

\* The allowlists written into the config file from outside.
FileAllowlists == {<<>>, <<(<<"a">>)>>}

\* The config file is rewritten from outside the engine (an editor, another
\* instance): other flags, another allowlist.
EditConfigFile(e, al) ==
    /\ disk' = [written |-> "whole",
                cfg |-> [Blocklists |-> [s \in Sources |->
                            [cfg.Blocklists[s] EXCEPT !.Enabled = e[s]]],
                         Allowlist |-> al]]
    /\ disk' # disk
    /\ UNCHANGED <<mgrVars, callVars, dnsVars, loadVars, cache, upstream, lastCall,
                   flagsSeen, appVars>>

\* Time passes: every cache file gets TickHours older. Past CacheTTL the
\* age makes no difference any more and is not counted further.
Tick ==
    /\ \E s \in Sources : cache[s].exists /\ cache[s].age < CacheTTL
    /\ cache' = [s \in Sources |->
                    IF cache[s].exists
                    THEN [cache[s] EXCEPT !.age =
                             IF @ + TickHours < CacheTTL
                             THEN @ + TickHours ELSE CacheTTL]
                    ELSE cache[s]]
    /\ UNCHANGED <<mgrVars, loadVars, upstream, disk, lastCall, flagsSeen,
                   callVars, dnsVars, appVars>>

\* What the URLs can serve: each source one of its contents, which it goes
\* on serving.
Upstreams ==
    {u \in [Sources -> UNION {Contents(s) : s \in Sources}] :
        \A s \in Sources : u[s] \in Contents(s)}

\* The cache directories a manager can find for the URLs serving u: a
\* source's cache file is not there, or was just written from what its URL
\* serves.
Caches(u) ==
    {c \in [Sources -> {NoEntry} \cup {Entry(0, u[s]) : s \in Sources}] :
        \A s \in Sources : c[s] \in {NoEntry, Entry(0, u[s])}}

\* NewManager(cfg) for a config with the two sources, each enabled or not,
\* and no allowlist; nothing loaded yet.
InitSources ==
    /\ \E e \in [Sources -> BOOLEAN] :
          cfg = [Blocklists |-> [s \in Sources |->
                    [Name |-> SourceName(s), Format |-> SourceFormat(s),
                     Enabled |-> e[s]]],
                 Allowlist |-> <<>>]
    /\ allowlistMap = {}
    /\ domains = 0
    /\ maps = [id \in {0} |-> {}]
    /\ mu = [w |-> FALSE, r |-> {}]
    /\ load = [l \in Loaders |-> IdleLoad]
    /\ task = [l \in Loaders |-> [s \in Sources |-> NoTask]]
    /\ reader = IdleReader
    /\ installed = {}
    /\ lastCall = NoCall
    /\ flagsSeen = {}
    /\ query = <<>>
    /\ blocked = <<>>
    /\ InitServer

\* Loads and the clock: the cache directory holds any of the files it can
\* hold; the config file plays no part.
InitFetch ==
    /\ InitSources
    /\ upstream \in Upstreams
    /\ cache \in Caches(upstream)
    /\ disk = NoFile

NextFetch == LoadBlocklists \/ Tick

SpecFetch == InitFetch /\ [][NextFetch]_vars

\* A content all of whose lines fit the scanner's buffer.
Scannable(content) ==
    \A i \in 1..Len(content) :
        Len(content[i].text) + content[i].pad < MaxScanTokenSize

\* Toggles and loads: every URL serves a content the scanner takes whole;
\* the cache directory starts empty; the config file is not there (the
\* defaults are in use) or holds the config.
InitManage ==
    /\ InitSources
    /\ upstream \in {u \in Upstreams : \A s \in Sources : Scannable(u[s])}
    /\ cache = [s \in Sources |-> NoEntry]
    /\ disk \in {NoFile, [written |-> "whole", cfg |-> cfg]}

NextManage ==
    \/ LoadBlocklists
    \/ \E name \in ToggleNames, enabled \in BOOLEAN : ToggleSource(name, enabled)

SpecManage == InitManage /\ [][NextManage]_vars

\* Longest domain text of the one-line sources.
MaxDomain == 2

\* What the URLs serve when both sources list the same one text, each in
\* its format: the hosts source "0 <text>", the raw source "<text>", for
\* every text of up to MaxDomain characters.
LineUpstreams ==
    {[s \in Sources |-> IF s = 1 THEN <<Ln(<<"0", " ">> \o t)>> ELSE <<Ln(t)>>] :
        t \in Strs(NameChars, MaxDomain)}

\* Loads of one-line sources, the cache directory empty at first.
InitLines ==
    /\ InitSources
    /\ upstream \in LineUpstreams
    /\ cache = [s \in Sources |-> NoEntry]
    /\ disk = NoFile

SpecLines == InitLines /\ [][LoadBlocklists]_vars

\* Reloads, with the config file changing between them.
NextReload ==
    \/ Reload
    \/ \E e \in [Sources -> BOOLEAN], al \in FileAllowlists : EditConfigFile(e, al)

SpecReload == InitManage /\ [][NextReload]_vars

\* A load cycle, step by step, with ToggleSource called for a configured
\* name while the range loop runs: the loop reads m.cfg.Blocklists[i]
\* without m.mu, that ToggleSource writes under m.mu.Lock, so either order
\* of the two is a run. (A call before the cycle only changes the flags the
\* cycle starts from, which InitLoad draws; a call after the loop is not
\* read by the cycle.)
NextToggle ==
    \/ \E l \in OneLoader :
          \/ LoadStart(l)
          \/ LoadRange(l)
          \/ LoadWait(l)
          \/ LoadSwap(l)
          \/ LoadReport(l)
          \/ \E s \in Sources :
                \/ TaskFetch(l, s)
                \/ TaskLock(l, s)
                \/ TaskMerge(l, s)
                \/ TaskStat(l, s)
    \/ /\ \E l \in Loaders : load[l].pc = "range"
       /\ \E s \in Sources, enabled \in BOOLEAN :
             ToggleSource(SourceName(s), enabled)

SpecToggle == InitLoad /\ [][NextToggle]_vars

\* ------------------------------------------------------------- start-up
\* Everything but boot and, where named, svc and the ruleset stays.
BootFrame ==
    UNCHANGED <<maps, domains, allowlistMap, callVars, dnsVars, loadVars, envVars, etc,
                lk>>

\* runDaemon, lines 138-143: "go func() { svc.Reload() ... }()".
BootGoReload ==
    /\ boot.pc = "init"
    /\ boot' = [boot EXCEPT !.pc = "start", !.reload = "spawned"]
    /\ UNCHANGED svc
    /\ BootFrame

\* AppService.Reload up to its call of LoadBlocklists: the log line.
ReloadEnter ==
    /\ boot.exit < 0
    /\ boot.reload = "spawned"
    /\ boot' = [boot EXCEPT !.reload = "called", !.n = lastCall.n]
    /\ svc' = Logged(svc, "Reloading configuration and blocklists...")
    /\ BootFrame

\* AppService.Reload after LoadBlocklists has returned, and the goroutine
\* of runDaemon around it: an error is logged ("Reload failed", "Blocklist
\* load error") and nothing else is done about it.
ReloadReturn ==
    /\ boot.exit < 0
    /\ boot.reload = "called"
    /\ lastCall.op = "LoadBlocklists" /\ lastCall.n # boot.n
    /\ boot' = [boot EXCEPT !.reload = IF lastCall.err THEN "failed" ELSE "done"]
    /\ svc' = IF lastCall.err
              THEN Logged(Logged(svc, "Reload failed"), "Blocklist load error")
              ELSE Logged(svc, "Reload complete.")
    /\ BootFrame

\* Server.Start: the UDP server is set up, the goroutine of ListenAndServe
\* is started, nil is returned (the error test of runDaemon line 153 never
\* fires) and runDaemon goes on to its select.
BootStart ==
    /\ boot.pc = "start"
    /\ boot' = [boot EXCEPT !.pc = "select", !.listen = "starting"]
    /\ UNCHANGED svc
    /\ BootFrame

\* The goroutine of Start: ListenAndServe binds the UDP port and calls
\* NotifyStartedFunc, which closes Ready; or the bind fails, the error is
\* printed and the goroutine ends.
Listen ==
    /\ boot.exit < 0
    /\ boot.listen = "starting"
    /\ \E bindOk \in BOOLEAN :
          boot' = IF bindOk
                  THEN [boot EXCEPT !.listen = "bound", !.ready = TRUE]
                  ELSE [boot EXCEPT !.listen = "failed"]
    /\ UNCHANGED svc
    /\ BootFrame

\* The select of runDaemon, case <-srv.Ready: SetupDNS points the system
\* at the sinkhole, or fails, and then the server is stopped and the
\* process exits with 1.
SelectReady ==
    /\ boot.pc = "select"
    /\ boot.ready
    /\ \E setupOk \in BOOLEAN :
          boot' = IF setupOk
                  THEN [boot EXCEPT !.pc = "running", !.sysdns = "sinkhole"]
                  ELSE [boot EXCEPT !.pc = "exited", !.stopped = TRUE, !.exit = 1]
    /\ UNCHANGED svc
    /\ BootFrame

\* The timeout case taken as a warning: the daemon goes on to "running".
MutSelectTimeoutGoesOn ==
    /\ boot.pc = "select"
    /\ boot' = [boot EXCEPT !.pc = "running"]
    /\ UNCHANGED svc
    /\ BootFrame

\* The other case, <-time.After(2 * time.Second): "DNS Start Timeout",
\* srv.Stop(), os.Exit(1). Two seconds can have passed whatever else has
\* happened.
SelectTimeout ==
    /\ boot.pc = "select"
    /\ boot' = [boot EXCEPT !.pc = "exited", !.stopped = TRUE, !.exit = 1]
    /\ UNCHANGED svc
    /\ BootFrame

\* "<-stop": a signal ends the daemon; srv.Stop(), RestoreDNS, return.
BootStop ==
    /\ boot.pc = "running"
    /\ boot' = [boot EXCEPT !.pc = "exited", !.stopped = TRUE,
                            !.sysdns = "system", !.exit = 0]
    /\ UNCHANGED svc
    /\ BootFrame

\* The bound server hands a datagram to handleRequest, which classifies it
\* against the ruleset live at the time.
Serve ==
    /\ boot.exit < 0
    /\ boot.listen = "bound" /\ ~boot.stopped
    /\ boot' = [boot EXCEPT !.served = @ \cup {[reload |-> boot.reload,
                                                rules |-> Live]}]
    /\ UNCHANGED svc
    /\ BootFrame

\* The daemon from the initial load on; LoadBlocklists is the one call that
\* Reload makes.
NextBoot ==
    \/ BootGoReload
    \/ ReloadEnter
    \/ (boot.exit < 0 /\ boot.reload = "called" /\ lastCall.n = boot.n
           /\ LoadBlocklists)
    \/ ReloadReturn
    \/ BootStart
    \/ Listen
    \/ SelectReady
    \/ SelectTimeout
    \/ BootStop
    \/ Serve

SpecBoot == InitManage /\ [][NextBoot]_vars

\* Scheduling: the goroutines get to run and the timer of the select fires
\* if Ready does not come first.
SpecBootFair ==
    /\ SpecBoot
    /\ WF_vars(BootGoReload) /\ WF_vars(BootStart) /\ WF_vars(Listen)
    /\ WF_vars(SelectReady \/ SelectTimeout)

\* ------------------------------------------------------- the allowlist
\* The domains AddAllowed and RemoveAllowed are called with: a rule's name
\* as it is, in uppercase, with the root dot and after a blank; a name
\* below a rule; a blank; nothing.
AllowInputs == {<<"a">>, <<"A">>, <<"a", ".">>, <<" ", "a">>,
                <<"a", ".", "a">>, <<" ">>, <<>>}

\* The allowlists a config file can hold: none, an entry, an entry in
\* uppercase, an entry twice.
ConfigAllowlists == {<<>>, <<(<<"a">>)>>, <<(<<"A">>)>>, <<(<<"a">>), (<<"a">>)>>}

\* syncAllowlistMap: the map built from cfg.Allowlist, keys lowercased.
syncAllowlistMap(allowlist) ==
    {ToLower(allowlist[i]) : i \in 1..Len(allowlist)}

\* The entries of a slice, as a set.
Entries(allowlist) == {allowlist[i] : i \in 1..Len(allowlist)}

\* AddAllowed up to the call of config.Save: the domain is lowercased and
\* trimmed of blanks; an empty one is an error; otherwise it goes into the
\* map, and to the end of cfg.Allowlist unless an equal entry is there.
AddAllowedIn(c, m, domain) ==
    LET dom == ToLower(TrimSpace(domain)) IN
    IF dom = <<>>
    THEN [err |-> TRUE, cfg |-> c, allowlistMap |-> m]
    ELSE [err |-> FALSE,
          cfg |-> [c EXCEPT !.Allowlist =
                      IF \E i \in 1..Len(@) : @[i] = dom THEN @ ELSE Append(@, dom)],
          allowlistMap |-> m \cup {dom}]

\* RemoveAllowed up to the call of config.Save: the lowercased, trimmed
\* domain leaves the map, and cfg.Allowlist becomes the entries that differ
\* from it, in order.
RemoveAllowedIn(c, m, domain) ==
    LET dom == ToLower(TrimSpace(domain))
        keep(d) == d # dom
    IN [err |-> FALSE,
        cfg |-> [c EXCEPT !.Allowlist = SelectSeq(@, keep)],
        allowlistMap |-> m \ {dom}]

\* Manager.AddAllowed(domain), whole, under m.mu.Lock.
AddAllowed(domain) ==
    /\ ~mu.w /\ mu.r = {}
    /\ LET added == AddAllowedIn(cfg, allowlistMap, domain) IN
       IF added.err
       THEN /\ lastCall' = Call("AddAllowed", <<domain>>, TRUE, <<>>)
            /\ UNCHANGED <<cfg, allowlistMap, disk>>
       ELSE \E how \in SaveOutcomes :
               LET saved == Save(added.cfg, disk, how) IN
               /\ cfg' = added.cfg
               /\ allowlistMap' = added.allowlistMap
               /\ disk' = saved.disk
               /\ lastCall' = Call("AddAllowed", <<domain>>, saved.err, <<>>)
    /\ UNCHANGED <<maps, domains, mu, load, task, reader, installed, cache,
                   upstream, flagsSeen, callVars, dnsVars, appVars>>

\* Manager.RemoveAllowed(domain), whole, under m.mu.Lock.
RemoveAllowed(domain) ==
    /\ ~mu.w /\ mu.r = {}
    /\ \E how \in SaveOutcomes :
          LET removed == RemoveAllowedIn(cfg, allowlistMap, domain)
              saved == Save(removed.cfg, disk, how)
          IN /\ cfg' = removed.cfg
             /\ allowlistMap' = removed.allowlistMap
             /\ disk' = saved.disk
             /\ lastCall' = Call("RemoveAllowed", <<domain>>, saved.err, <<>>)
    /\ UNCHANGED <<maps, domains, mu, load, task, reader, installed, cache,
                   upstream, flagsSeen, callVars, dnsVars, appVars>>

\* Manager.ListAllowed(), under m.mu.RLock: a copy of cfg.Allowlist.
ListAllowed ==
    /\ ~mu.w
    /\ lastCall' = Call("ListAllowed", <<>>, FALSE, cfg.Allowlist)
    /\ UNCHANGED <<mgrVars, loadVars, cache, upstream, disk, flagsSeen,
                   callVars, dnsVars, appVars>>

\* NewManager(cfg) for a config without sources and with one of the
\* allowlists, read from the config file if it has any entry; the ruleset
\* is that of a load of one rule.
InitAllow ==
    /\ \E al \in ConfigAllowlists :
          /\ cfg = [Blocklists |-> <<>>, Allowlist |-> al]
          /\ allowlistMap = syncAllowlistMap(al)
          /\ disk = IF al = <<>> THEN NoFile
                    ELSE [written |-> "whole", cfg |-> cfg]
    /\ domains = 0
    /\ maps = [id \in {0} |-> ServedRules]
    /\ mu = [w |-> FALSE, r |-> {}]
    /\ load = [l \in Loaders |-> IdleLoad]
    /\ task = [l \in Loaders |-> [s \in Sources |-> NoTask]]
    /\ reader = IdleReader
    /\ installed = ServedRules
    /\ cache = [s \in Sources |-> NoEntry]
    /\ upstream = [s \in Sources |-> <<>>]
    /\ lastCall = NoCall
    /\ flagsSeen = {}
    /\ query = <<>>
    /\ blocked = <<>>
    /\ InitServer

NextAllow ==
    \/ \E domain \in AllowInputs : AddAllowed(domain)
    \/ \E domain \in AllowInputs : RemoveAllowed(domain)
    \/ ListAllowed

SpecAllow == InitAllow /\ [][NextAllow]_vars

\* ------------------------------------------------------------ C1, C2
\* The reference classifier of the specification, written from its words:
\* N is the lowercased name minus one trailing dot; blocked exactly when N
\* is not allowlisted and N, or N cut after any of its dots, is a rule.
RefN(d) ==
    LET low == [i \in 1..Len(d) |-> IF d[i] = "A" THEN "a" ELSE d[i]]
        n == Len(low)
    IN IF n > 0 /\ low[n] = "." THEN [i \in 1..(n - 1) |-> low[i]] ELSE low

RefSuffixes(N) == {SubSeq(N, i + 1, Len(N)) : i \in {j \in 1..Len(N) : N[j] = "."}}

RefBlocked(rules, allow, d) ==
    /\ RefN(d) \notin allow
    /\ (RefN(d) \in rules \/ RefSuffixes(RefN(d)) \cap rules # {})

\* C1: IsBlocked agrees with the reference classifier for every input and
\* every ruleset and allowlist: true exactly when the normalized name is
\* not allowlisted and the name or one of its label suffixes (down to the
\* bare last label) is in the ruleset.
C1_AgreesWithReference ==
    blocked # <<>> => blocked[1] = RefBlocked(Live, allowlistMap, query)

\* C1 witness: a name blocked only through its bare last label, queried in
\* uppercase with a trailing dot.
C1_Witness ==
    /\ blocked = <<TRUE>>
    /\ query = <<"A", ".", "a", ".">>
    /\ Live = {<<"a">>}

\* C2: the allowlist is exact-match and overrides everything: an
\* allowlisted normalized name is never blocked, whatever the ruleset holds,
\* and a name that is not itself allowlisted gets no exemption from any
\* allowlist entry (it is blocked whenever it or an ancestor is a rule).
C2_AllowlistExactOverride ==
    blocked # <<>> =>
        /\ (RefN(query) \in allowlistMap => blocked[1] = FALSE)
        /\ (/\ RefN(query) \notin allowlistMap
            /\ (RefN(query) \in Live \/ RefSuffixes(RefN(query)) \cap Live # {})
            => blocked[1] = TRUE)

\* C2 witness: an allowlisted name whose ancestor is a rule is not blocked.
C2_Witness ==
    /\ blocked = <<FALSE>>
    /\ RefN(query) \in allowlistMap
    /\ RefSuffixes(RefN(query)) \cap Live # {}

\* ---------------------------------------------------------- C4 .. C9
\* The names handleRequest gives to the classifier, question by question.
LookupNames(r) == [i \in 1..Len(r.Question) |-> LookupName(r.Question[i].Name)]

\* A finished handler that took the sinkhole path: it never went upstream.
Sinkholed(f) == f.pc = "done" /\ f.up = <<>>

\* C4: every datagram given to handleRequest is answered exactly once: a
\* finished handler has written one message, and no handler ever writes two.
C4_AnsweredExactlyOnce ==
    \A h \in Handlers :
        /\ Len(handler[h].w) <= 1
        /\ handler[h].pc = "done" => Len(handler[h].w) = 1

\* C4 witness: a standard query without questions, forwarded and answered.
C4_Witness ==
    \E h \in Handlers :
        /\ handler[h].pc = "done"
        /\ handler[h].r.Opcode = "QUERY"
        /\ handler[h].r.Question = <<>>
        /\ Len(handler[h].w) = 1

\* C5: questions are classified in array order and the first blocked one
\* wins: the names classified are a prefix of the questions' names with no
\* blocked name before the last, the blocked counter is incremented at most
\* once per datagram, and a finished standard query with a blocked question
\* was classified up to the first blocked question only, counted once,
\* answered by the sinkhole reply and never sent upstream.
C5_FirstBlockedWins ==
    \A h \in Handlers :
        LET f == handler[h]
            names == LookupNames(f.r)
            Blk(n) == RefBlocked(Live, allowlistMap, n)
            hits == {i \in 1..Len(names) : Blk(names[i])}
        IN /\ Len(f.cls) <= Len(names)
           /\ f.cls = SubSeq(names, 1, Len(f.cls))
           /\ \A i \in 1..(Len(f.cls) - 1) : ~Blk(f.cls[i])
           /\ f.inc.blocked <= 1
           /\ (f.pc = "done" /\ f.r.Opcode = "QUERY" /\ hits # {}) =>
                 /\ Len(f.cls) = CHOOSE k \in hits : \A j \in hits : k <= j
                 /\ f.inc.blocked = 1
                 /\ f.up = <<>>
                 /\ f.w = <<SinkholeReply(f.r)>>

\* C5 witness: a blocked first question, an allowed second one that was
\* never classified.
C5_Witness ==
    \E h \in Handlers :
        /\ handler[h].pc = "done"
        /\ handler[h].r.Opcode = "QUERY"
        /\ handler[h].r.Question = <<[Name |-> <<"a", ".">>, Qtype |-> "A"],
                                     [Name |-> <<"a", "a", ".">>, Qtype |-> "MX"]>>
        /\ handler[h].cls = <<(<<"a">>)>>

\* The answer section the specification asks of a sinkhole reply: one
\* record per A question and one per AAAA question, in question order.
RefAnswers(qs) ==
    LET idx == {i \in 1..Len(qs) : qs[i].Qtype \in {"A", "AAAA"}}
        nth(k) == CHOOSE i \in idx : Cardinality({j \in idx : j < i}) = k - 1
    IN [k \in 1..Cardinality(idx) |->
           [Name |-> qs[nth(k)].Name, Type |-> qs[nth(k)].Qtype,
            Addr |-> IF qs[nth(k)].Qtype = "A" THEN "0.0.0.0" ELSE "::"]]

\* C6: a sinkhole reply echoes the request's identifier and questions, has
\* the success response code, and holds one answer per A question (0.0.0.0)
\* and one per AAAA question (::), in question order, none for other types.
C6_SinkholeReplyShape ==
    \A h \in Handlers :
        Sinkholed(handler[h]) =>
            LET m == handler[h].w[1]
                r == handler[h].r
            IN /\ m.Id = r.Id
               /\ m.Question = r.Question
               /\ m.Rcode = "NOERROR"
               /\ m.Answer = RefAnswers(r.Question)

\* C7: when the upstream exchange fails, the requester gets a reply to its
\* own message with the server-failure code.
C7_ServfailOnUpstreamError ==
    \A h \in Handlers :
        LET f == handler[h] IN
        (f.pc = "done" /\ f.up # <<>> /\ f.up[1].err) =>
            /\ Len(f.w) = 1
            /\ f.w[1].Response
            /\ f.w[1].Id = f.r.Id
            /\ f.w[1].Opcode = f.r.Opcode
            /\ f.w[1].Rcode = "SERVFAIL"

\* C7 witness: a query for a name that is not blocked, upstream failing.
C7_Witness ==
    \E h \in Handlers :
        /\ handler[h].pc = "done"
        /\ handler[h].r.Opcode = "QUERY"
        /\ handler[h].r.Question = <<[Name |-> <<"a", "a", ".">>, Qtype |-> "MX"]>>
        /\ handler[h].up = <<[msg |-> handler[h].r, err |-> TRUE]>>
        /\ handler[h].w[1].Rcode = "SERVFAIL"

\* C8: a step of a handler whose datagram is not a standard query changes
\* neither counter, classifies nothing and logs nothing, and the handler
\* ends having sent the datagram upstream once, as it came.
C8_NonQueryPassThrough ==
    [][\A h \in Handlers :
          (/\ handler[h].pc # "idle"
           /\ handler[h].r.Opcode # "QUERY"
           /\ handler'[h] # handler[h]) =>
              /\ statsQueries' = statsQueries
              /\ statsBlocked' = statsBlocked
              /\ handler'[h].cls = <<>>
              /\ handler'[h].log = <<>>
              /\ handler'[h].pc \in {"forward", "done"}
              /\ handler'[h].pc = "done" =>
                    /\ Len(handler'[h].up) = 1
                    /\ handler'[h].up[1].msg = handler[h].r]_vars

\* C8 witness: a NOTIFY datagram carrying a blocked name was forwarded.
C8_Witness ==
    \E h \in Handlers :
        /\ handler[h].pc = "done"
        /\ handler[h].r.Opcode = "NOTIFY"
        /\ handler[h].r.Question = <<[Name |-> <<"a", ".">>, Qtype |-> "A"]>>
        /\ Len(handler[h].up) = 1
        /\ statsQueries = 0

\* Handlers whose standard-query datagram has passed the total counter.
Counted == {h \in Handlers : /\ handler[h].r.Opcode = "QUERY"
                             /\ handler[h].pc \notin {"idle", "opcode"}}

\* Handlers that have passed the blocked counter on the way to the sinkhole.
CountedBlocked == {h \in Handlers : \/ handler[h].pc \in {"logBlocked", "sinkhole"}
                                    \/ Sinkholed(handler[h])}

\* C9: the counters are exact and monotone under every interleaving: the
\* total counter is the number of standard-query datagrams taken in, the
\* blocked counter the number of datagrams on the sinkhole path, and no step
\* lowers either.
C9_CountersExactMonotone ==
    /\ [](statsQueries = Cardinality(Counted))
    /\ [](statsBlocked = Cardinality(CountedBlocked))
    /\ [][statsQueries' >= statsQueries /\ statsBlocked' >= statsBlocked]_vars

\* C9 witness: two two-question datagrams handled side by side, both
\* sinkholed, each counted once.
C9_Witness ==
    /\ \A h \in Handlers : Sinkholed(handler[h]) /\ Len(handler[h].r.Question) = 2
    /\ statsQueries = 2
    /\ statsBlocked = 2

\* ----------------------------------------------------------- C3, C10
\* C3: the ruleset swap is atomic for readers: every lookup of one
\* IsBlocked call (the exact match and each step of the walk) sees the one
\* ruleset that was installed when the call took the read lock; the live
\* ruleset is always a set as it was installed, never one still being
\* built; and a set is installed complete, holding what every goroutine of
\* its cycle parsed.
C3_SwapAtomicForReaders ==
    /\ \A i \in 1..Len(reader.seen) : reader.seen[i] = reader.snap
    /\ Live = installed
    /\ \A l \in Loaders :
          load[l].pc = "report" =>
              installed = UNION {task[l][s].localMap : s \in Sources}

\* C3 witness: a call is between its exact match and its walk, holding the
\* read lock, while a reload has built a different set and waits to swap.
C3_Witness ==
    /\ reader.pc = "walk"
    /\ Len(reader.seen) = 1
    /\ \E l \in Loaders : /\ load[l].pc = "swap"
                          /\ maps[load[l].newMap] # Live

\* The domains of the valid lines of a source, every line of the content
\* taken.
RefSourceRules(format, content) ==
    {TrimSuffixDot(LineDomain(format, content[i].text)) :
        i \in {j \in 1..Len(content) : LineDomain(format, content[j].text) # <<>>}}

\* The union over the enabled sources fetched successfully in l's cycle.
RefUnion(l) ==
    UNION {RefSourceRules(cfg.Blocklists[s].Format, task[l][s].content) :
              s \in {x \in Sources : /\ cfg.Blocklists[x].Enabled
                                     /\ task[l][x].pc = "done"
                                     /\ ~task[l][x].failed}}

\* C10: when LoadBlocklists has completed successfully, the live ruleset
\* is exactly the union of the domains of the valid lines of every enabled
\* source fetched successfully in that cycle, and the rule count is the
\* number of distinct domains of that union.
C10_LiveIsUnionOfValidLines ==
    \A l \in Loaders :
        (load[l].pc = "done" /\ ~load[l].err) =>
            /\ Live = RefUnion(l)
            /\ load[l].total = Cardinality(RefUnion(l))

\* ------------------------------------------------------------------ C11
\* The goroutines of l's cycle whose fetch failed.
FailedTasks(l) == {s \in Sources : task[l][s].failed}

\* C11: a fetch failure of one enabled source is isolated: the failed
\* source contributes nothing; in a cycle with a failed source every other
\* enabled source is still fetched, parsed and merged; the set built from
\* them is installed; and the call returns no error.
C11_FetchFailureIsolated ==
    \A l \in Loaders :
        /\ \A s \in FailedTasks(l) :
              /\ task[l][s].pc = "done"
              /\ task[l][s].localMap = {}
              /\ task[l][s].count = 0
        /\ (FailedTasks(l) # {} /\ load[l].pc \in {"swap", "report", "done"}) =>
              \A s \in Sources \ FailedTasks(l) :
                  cfg.Blocklists[s].Enabled =>
                      /\ task[l][s].pc = "done"
                      /\ task[l][s].localMap =
                            ParseSource(cfg.Blocklists[s].Format,
                                        task[l][s].content).localMap
                      /\ task[l][s].localMap \subseteq maps[load[l].newMap]
        /\ (FailedTasks(l) # {} /\ load[l].pc \in {"report", "done"}) =>
              /\ Live = UNION {task[l][s].localMap : s \in Sources \ FailedTasks(l)}
              /\ installed = Live
        /\ (FailedTasks(l) # {} /\ load[l].pc = "done") => ~load[l].err

\* C11 witness: a completed load in which the hosts source failed and the
\* raw source delivered its two domains, which are now live.
C11_Witness ==
    \E l \in Loaders :
        /\ load[l].pc = "done"
        /\ ~load[l].err
        /\ FailedTasks(l) = {1}
        /\ task[l][2].count = 2
        /\ Live = {<<"a">>, <<"a", "a">>}

\* ------------------------------------------------------- C12, C13, C17
\* A step that is a call of LoadBlocklists.
LoadCall == lastCall'.n # lastCall.n /\ lastCall'.op = "LoadBlocklists"

\* C12 as stated: as below, but the cache file holds the downloaded body
\* after every download that brought one, the write having gone through
\* or not.
C12_CacheAlwaysOverwritten ==
    [][(LoadCall /\ ~lastCall'.err) =>
          \A s \in EnabledSet(cfg.Blocklists) :
              LET before == cache[s]
                  t == lastCall'.out.fetch[s]
              IN IF before.exists /\ before.age < 24 /\ t.cause # "unreadable"
                 THEN /\ t.get = "none"
                      /\ ~t.err
                      /\ t.content = before.content
                 ELSE /\ t.get # "none"
                      /\ t.get = "ok" =>
                            /\ ~t.err
                            /\ t.content = upstream[s]
                            /\ cache'[s].exists
                            /\ cache'[s].content = upstream[s]]_vars

\* C12 (amended): the cache policy of a source fetch. If the source's cache file is
\* there, can be read and is younger than 24 hours, the fetch returns its
\* content, makes no request and leaves the file alone; otherwise it makes
\* the GET, and when that brings a body with status 200 the fetch returns
\* the body and writes it to the cache file, which holds the body, just
\* modified, once the write has gone through.
C12_CachePolicy ==
    [][(LoadCall /\ ~lastCall'.err) =>
          \A s \in EnabledSet(cfg.Blocklists) :
              LET before == cache[s]
                  t == lastCall'.out.fetch[s]
              IN IF before.exists /\ before.age < 24 /\ t.cause # "unreadable"
                 THEN /\ t.get = "none"
                      /\ ~t.err
                      /\ t.content = before.content
                      /\ cache'[s] = before
                 ELSE /\ t.get # "none"
                      /\ t.get = "ok" =>
                            /\ ~t.err
                            /\ t.content = upstream[s]
                            /\ t.write # "none"
                            /\ t.write = "ok" =>
                                  cache'[s] = [exists |-> TRUE, age |-> 0,
                                               content |-> upstream[s]]]_vars

\* C12 witness: one load in which the hosts source came from its young
\* cache file without a request, and the raw source, its file 24 hours
\* old, was downloaded and written anew.
C12_Witness ==
    /\ lastCall.op = "LoadBlocklists"
    /\ ~lastCall.err
    /\ lastCall.out.fetch[1].cause = "hit"
    /\ lastCall.out.fetch[1].get = "none"
    /\ lastCall.out.fetch[2].cause = "old"
    /\ lastCall.out.fetch[2].get = "ok"
    /\ cache[2] = [exists |-> TRUE, age |-> 0, content |-> upstream[2]]

\* C13: cache I/O failures never fail a load. A young cache file that
\* cannot be read is passed over for the download; when the download brings
\* the body, the source is fetched without error and all domains of the
\* body are in the new live ruleset, whether the cache file could not be
\* read or the cache write failed; and a call in which either happened
\* returns no error.
C13_CacheFailuresNotFatal ==
    [][LoadCall =>
          \A s \in EnabledSet(cfg.Blocklists) :
              LET t == lastCall'.out.fetch[s]
                  ioFailed == t.cause = "unreadable" \/ t.write \in {"denied", "partial"}
              IN /\ t.cause = "unreadable" => t.get # "none"
                 /\ ioFailed => ~lastCall'.err
                 /\ (ioFailed /\ t.get = "ok") =>
                       /\ ~t.err
                       /\ ParseSource(cfg.Blocklists[s].Format,
                                      upstream[s]).localMap
                             \subseteq maps'[domains']]_vars

\* C13 witness: a load in which the hosts source's cache file could not be
\* read and the raw source's cache write failed, both downloaded, and the
\* domains of both are live.
C13_Witness ==
    /\ lastCall.op = "LoadBlocklists"
    /\ ~lastCall.err
    /\ lastCall.out.fetch[1].cause = "unreadable"
    /\ lastCall.out.fetch[1].get = "ok"
    /\ lastCall.out.fetch[2].write = "denied"
    /\ lastCall.out.fetch[2].get = "ok"
    /\ Live = {<<"a">>, <<"a", ".", "a">>, <<"a", "a">>}

\* A call of LoadBlocklists that returned no error and in which every
\* enabled source was fetched.
AllFetched(c) ==
    /\ c.op = "LoadBlocklists"
    /\ ~c.err
    /\ \A s \in EnabledSet(cfg.Blocklists) : ~c.out.fetch[s].err

\* C17: load is idempotent. Of two calls of LoadBlocklists in a row, with
\* the same sources enabled, the URLs serving what they served and every
\* fetch succeeding, the second leaves the rule count of the first and the
\* classification of every name as the first left it, whether its sources
\* came from the cache or from the network.
C17_LoadIdempotent ==
    [][(AllFetched(lastCall) /\ LoadCall /\ AllFetched(lastCall')
        /\ cfg' = cfg /\ upstream' = upstream) =>
          /\ lastCall'.out.total = lastCall.out.total
          /\ \A d \in Queries :
                IsBlockedIn(maps'[domains'], allowlistMap', d)
                    = IsBlockedIn(Live, allowlistMap, d)]_vars

\* ------------------------------------------------------------ C14, C15
\* A step that is a call of AddAllowed(D).
AddCall(D) ==
    /\ lastCall'.n # lastCall.n
    /\ lastCall'.op = "AddAllowed"
    /\ lastCall'.arg = <<D>>

\* The names the round trip is stated for: the inputs that are names.
AllowedNames == {D \in AllowInputs : D # <<>> /\ \A i \in 1..Len(D) : D[i] # " "}

\* C14: the allowlist round trip. For every non-empty name D that is not
\* allowlisted: after AddAllowed(D) the list ListAllowed returns holds D
\* (as given or normalized) and IsBlocked(D) is false, also when D matches
\* a rule; after RemoveAllowed(D) next, the list holds D no more and
\* IsBlocked(D) is what it was before the add.
C14_AllowlistRoundTrip ==
    [][\A D \in AllowedNames :
          (AddCall(D) /\ RefN(D) \notin allowlistMap) =>
              LET removed == RemoveAllowedIn(cfg', allowlistMap', D) IN
              /\ {D, RefN(D)} \cap Entries(cfg'.Allowlist) # {}
              /\ ~IsBlockedIn(maps'[domains'], allowlistMap', D)
              /\ {D, RefN(D)} \cap Entries(removed.cfg.Allowlist) = {}
              /\ IsBlockedIn(maps'[domains'], removed.allowlistMap, D)
                    = IsBlockedIn(Live, allowlistMap, D)]_vars

\* C15: after construction and after any calls of AddAllowed and
\* RemoveAllowed, the keys of the lookup map are the entries of the ordered
\* record, the record holds no entry twice, and AddAllowed of a domain that
\* is in the record changes neither.
C15_AllowlistStructuresAgree ==
    /\ [](allowlistMap = Entries(cfg.Allowlist))
    /\ [](\A i, j \in 1..Len(cfg.Allowlist) :
             cfg.Allowlist[i] = cfg.Allowlist[j] => i = j)
    /\ [][\A D \in AllowInputs :
             (AddCall(D) /\ D \in Entries(cfg.Allowlist)) =>
                 /\ cfg'.Allowlist = cfg.Allowlist
                 /\ allowlistMap' = allowlistMap]_vars

\* ------------------------------------------------------- C16, C18, C19
\* A step that is a call of ToggleSource(name, enabled).
ToggleCall(name, enabled) ==
    /\ lastCall'.n # lastCall.n
    /\ lastCall'.op = "ToggleSource"
    /\ lastCall'.arg = <<name, enabled>>

\* The configured sources of that name.
Named(name) == {s \in DOMAIN cfg.Blocklists : cfg.Blocklists[s].Name = name}

\* What a source contributes: the domains of the valid lines of what its
\* URL serves.
Contribution(s) == RefSourceRules(cfg.Blocklists[s].Format, upstream[s])

\* C16: disabling a source and reloading removes its exclusive domains.
\* After ToggleSource(S, false) and then a load in which every enabled
\* source is fetched, a name that S's domains cover (exactly or through an
\* ancestor) and those of no enabled source cover is not blocked, and every
\* name the domains of an enabled source cover is blocked.
C16_DisableRemovesExclusive ==
    [][\A S \in Sources :
          (/\ lastCall.op = "ToggleSource"
           /\ lastCall.arg = <<cfg.Blocklists[S].Name, FALSE>>
           /\ LoadCall
           /\ AllFetched(lastCall')) =>
              LET rest == UNION {Contribution(s) :
                                    s \in EnabledSet(cfg.Blocklists) \ {S}}
              IN \A d \in Queries :
                    /\ (RefBlocked(Contribution(S), {}, d) /\ ~RefBlocked(rest, {}, d))
                          => ~IsBlockedIn(maps'[domains'], allowlistMap', d)
                    /\ RefBlocked(rest, allowlistMap, d)
                          => IsBlockedIn(maps'[domains'], allowlistMap', d)]_vars

\* C18: ToggleSource with a name that no configured source has returns an
\* error and changes no source, not the config file and not the live
\* ruleset.
C18_ToggleUnknownNoEffect ==
    [][\A name \in ToggleNames, enabled \in BOOLEAN :
          (ToggleCall(name, enabled) /\ Named(name) = {}) =>
              /\ lastCall'.err
              /\ cfg' = cfg
              /\ disk' = disk
              /\ maps' = maps /\ domains' = domains]_vars

\* C18 witness: a toggle of an unknown name was refused while a ruleset is
\* live, a source is enabled and the config file is written.
C18_Witness ==
    /\ lastCall.op = "ToggleSource"
    /\ lastCall.arg = <<"no-such-list", TRUE>>
    /\ lastCall.err
    /\ Live # {}
    /\ cfg.Blocklists[1].Enabled
    /\ disk.written = "whole"

\* The frame of a toggle of a known name: the flag of the source of that
\* name has the value given, no other field of any source has changed, and
\* the allowlist, its map and the live ruleset are as they were.
ToggleFrame(name, enabled) ==
    /\ \A s \in Named(name) : cfg'.Blocklists[s].Enabled = enabled
    /\ \A s \in DOMAIN cfg.Blocklists :
          /\ cfg'.Blocklists[s].Name = cfg.Blocklists[s].Name
          /\ cfg'.Blocklists[s].Format = cfg.Blocklists[s].Format
          /\ s \notin Named(name) =>
                cfg'.Blocklists[s].Enabled = cfg.Blocklists[s].Enabled
    /\ DOMAIN cfg'.Blocklists = DOMAIN cfg.Blocklists
    /\ cfg'.Allowlist = cfg.Allowlist
    /\ allowlistMap' = allowlistMap
    /\ maps' = maps /\ domains' = domains

Fetched(l) == {s \in Sources : task[l][s].pc # "none"}

\* C20: a load cycle works on a consistent snapshot of the enabled flags.
\* Once the range loop of a cycle has ended, the set of sources the cycle
\* fetches is one of the sets of enabled sources that held at some instant
\* since the cycle began, with ToggleSource running at any point of it.
C20_ConsistentSnapshot ==
    \A l \in Loaders :
        load[l].pc \in {"wait", "swap", "report"} =>
            Fetched(l) \in flagsSeen \cup {EnabledSet(cfg.Blocklists)}

\* ---------------------------------------------------------------- C21
\* C21: Stats returns a snapshot of the two counters. The pair (total,
\* blocked) a call of Stats returns is a pair the counters held together at
\* some instant of the call, and so its blocked count is at most its total.
C21_StatsSnapshot ==
    stats.pc = "done" =>
        /\ <<stats.q, stats.b>> \in stats.held
        /\ stats.b <= stats.q

\* ---------------------------------------------------------------- C22
Min(a, b) == IF a < b THEN a ELSE b

\* The latest k of the first n lines logged, oldest first.
LatestOf(n, k) == [i \in 1..k |-> n - k + i]

\* C22: the log is a ring of the most recent lines. At most 200 lines are
\* retained, they are the latest logged in the order logged, and what
\* GetRecentLogs(count), count at least 1, returned is the last
\* min(count, retained) of the lines of that time, whatever is logged
\* afterwards.
C22_LogRing ==
    /\ Len(svc.logLines) <= 200
    /\ svc.logLines = LatestOf(svc.logged, Min(svc.logged, 200))
    /\ svc.got.count >= 1 =>
          svc.got.ret = LatestOf(svc.got.at,
                                 Min(svc.got.count, Min(svc.got.at, 200)))

\* C22 witness: the ring has dropped lines, and a call that asked for two
\* lines before that still holds the two that were then the latest.
C22_Witness ==
    /\ svc.logged > 200
    /\ Len(svc.logLines) = 200
    /\ svc.logLines[1] = svc.logged - 199
    /\ svc.got = [count |-> 2, at |-> 200, ret |-> <<199, 200>>]

\* ----------------------------------------------------------- C23, C24
\* C23: a port that cannot be bound makes start-up fail. Once the bind has
\* failed, Ready is never closed, the daemon never gets to "running", the
\* system DNS is never pointed at the sinkhole, and the process ends with
\* exit code 1.
C23_BindFailureFatal ==
    /\ [](boot.listen = "failed" =>
             /\ ~boot.ready
             /\ boot.pc # "running"
             /\ boot.sysdns = "system"
             /\ boot.exit \in {0 - 1, 1})
    /\ (boot.listen = "failed" ~> (boot.pc = "exited" /\ boot.exit = 1))

\* C23 witness: the bind failed and the process has ended with 1, the
\* initial load having gone through meanwhile.
C23_Witness ==
    /\ boot.listen = "failed"
    /\ boot.pc = "exited" /\ boot.exit = 1
    /\ boot.reload = "done"
    /\ Live # {}

\* C24: a cache directory that cannot be created makes start-up fail. No
\* datagram is served after the initial load has reported its error.
C24_CacheDirFailureFatal ==
    \A x \in boot.served : x.reload # "failed"

\* ---------------------------------------------------------------- C25
\* What the claim compares the result of IsBlocked(D) with: IsBlocked of
\* the lowercased D and of D with a dot appended, and the handler's
\* classification of the name D and of the name D with the root dot.
CaseAndDotAgree(D) ==
    /\ blocked[1] = IsBlockedIn(Live, allowlistMap, ToLower(D))
    /\ blocked[1] = IsBlockedIn(Live, allowlistMap, Append(D, "."))
    /\ IsBlockedIn(Live, allowlistMap, LookupName(D))
          = IsBlockedIn(Live, allowlistMap, LookupName(Append(D, ".")))

EndsInDot(D) == Len(D) > 0 /\ D[Len(D)] = "."

\* C25 as stated: for every D, IsBlocked(D) = IsBlocked(lowercase(D)) =
\* IsBlocked(D + "."), and the handler classifies a name alike with and
\* without the root dot.
C25_CaseAndDotInsensitiveAll ==
    blocked # <<>> => CaseAndDotAgree(query)

\* C25 (amended): the same for every D that does not itself end in a dot.
C25_CaseAndDotInsensitive ==
    (blocked # <<>> /\ ~EndsInDot(query)) => CaseAndDotAgree(query)

\* C25 witness: a mixed-case name without the root dot, blocked through
\* its last label.
C25_Witness ==
    /\ blocked = <<TRUE>>
    /\ query = <<"A", ".", "a">>
    /\ Live = {<<"a">>}
    /\ allowlistMap = {}

\* ---------------------------------------------------------------- C26
\* The sources a call of LoadBlocklists went to fetch.
Requested(c) == {s \in Sources : c.out.fetch[s].cause # "skipped"}

\* C26: a reload re-reads the configuration. After a Reload that returned
\* no error, with the config file written whole, the sources fetched and
\* the sources enabled in memory are those enabled in the file, the
\* allowlist in memory is that of the file and the allowlist map holds its
\* entries, lowercased.
C26_ReloadRereadsConfig ==
    [][(LoadCall /\ ~lastCall'.err /\ disk.written = "whole") =>
          /\ Requested(lastCall') = EnabledSet(disk.cfg.Blocklists)
          /\ EnabledSet(cfg'.Blocklists) = EnabledSet(disk.cfg.Blocklists)
          /\ cfg'.Allowlist = disk.cfg.Allowlist
          /\ allowlistMap' = {ToLower(disk.cfg.Allowlist[i]) :
                                 i \in 1..Len(disk.cfg.Allowlist)}]_vars

\* ---------------------------------------------------------------- C27
\* A standard query with a question the classifier blocks.
HasBlocked(r) ==
    /\ r.Opcode = "QUERY"
    /\ \E i \in 1..Len(r.Question) :
          RefBlocked(Live, allowlistMap, LookupNames(r)[i])

\* C27: upstream is asked exactly when the datagram is not sinkholed. A
\* datagram with a blocked question is never sent upstream; any other is
\* sent upstream exactly once by the time its handler ends, as it came,
\* and the reply upstream gave is what the requester gets.
C27_UpstreamIffNotSinkholed ==
    \A h \in Handlers :
        LET f == handler[h] IN
        /\ Len(f.up) <= 1
        /\ (f.pc # "idle" /\ HasBlocked(f.r)) => f.up = <<>>
        /\ (f.pc = "done" /\ ~HasBlocked(f.r)) =>
              /\ Len(f.up) = 1
              /\ f.up[1].msg = f.r
              /\ ~f.up[1].err => f.w = <<UpstreamReply(f.r)>>

\* C27 witness: one handler has sinkholed a datagram whose second question
\* is blocked, without asking upstream; the other has relayed upstream's
\* reply to a datagram with no blocked question.
C27_Witness ==
    /\ handler[1].pc = "done"
    /\ handler[1].r.Question = <<[Name |-> <<"a", "a", ".">>, Qtype |-> "MX"],
                                 [Name |-> <<"a", ".">>, Qtype |-> "A"]>>
    /\ handler[1].r.Opcode = "QUERY"
    /\ handler[1].up = <<>>
    /\ handler[2].pc = "done"
    /\ handler[2].r.Opcode = "QUERY"
    /\ handler[2].r.Question = <<[Name |-> <<"a", "a", ".">>, Qtype |-> "MX"]>>
    /\ handler[2].up = <<[msg |-> handler[2].r, err |-> FALSE]>>
    /\ handler[2].w = <<UpstreamReply(handler[2].r)>>

\* ---------------------------------------------------------------- C28
\* C28: the goroutines of a cycle are joined before its swap. From the swap
\* of a cycle to its return every goroutine the cycle started has finished
\* (merged or failed), in every cycle of a run of reloads; and no step
\* changes the content of the map that is the live ruleset.
C28_TasksJoinedBeforeSwap ==
    /\ [](\A l \in Loaders :
             load[l].pc \in {"swap", "report", "done"} =>
                 \A s \in Sources : task[l][s].pc \in {"none", "done"})
    /\ [][domains' = domains => maps'[domains] = maps[domains]]_vars

\* C28 witness: a later cycle is about to swap, both of its goroutines done
\* and merged, while the ruleset of an earlier cycle is live.
C28_Witness ==
    /\ load[1].pc = "swap"
    /\ \A s \in Sources : task[1][s].pc = "done" /\ task[1][s].count > 0
    /\ Live # {}
    /\ maps[load[1].newMap] # {}

\* ---------------------------------------------------------------- C30
\* The complete result of the call l: all the domains its goroutines
\* parsed out of the sources they fetched.
CycleResult(l) ==
    UNION {task[l][s].localMap :
              s \in {t \in Sources : task[l][t].pc = "done" /\ ~task[l][t].failed}}

\* The step in which the call l installs its map.
SwapBy(l) == load[l].pc = "swap" /\ load'[l].pc = "report"

\* C30: concurrent loads do not mix. The live ruleset changes only when a
\* call swaps its map in, what a call swaps in is the complete result of
\* that call and nothing else, and the ruleset stays as installed until the
\* next swap; so once all calls have returned it is the result of the call
\* that swapped last.
C30_ConcurrentLoadsDoNotMix ==
    /\ [](Live = installed)
    /\ [][/\ \A l \in Loaders : SwapBy(l) => maps'[domains'] = CycleResult(l)
          /\ (domains' # domains \/ maps'[domains'] # maps[domains])
                => \E l \in Loaders : SwapBy(l)]_vars

\* C30 witness: two calls under way at once, the first has just installed
\* its result, the second has joined its goroutines and holds a different,
\* larger result to install next.
C30_Witness ==
    /\ load[1].pc = "report"
    /\ load[2].pc = "swap"
    /\ Live = CycleResult(1)
    /\ Live = {<<"a">>, <<"a", "a">>}
    /\ maps[load[2].newMap] = {<<"a">>, <<"a", ".", "a">>, <<"a", "a">>}

\* ---------------------------------------------------------------- C29
\* Every datagram handed to the handler is in the end answered, once.
Answered ==
    \A h \in Handlers :
        (handler[h].pc # "idle") ~> (handler[h].pc = "done" /\ Len(handler[h].w) = 1)

\* C29 as stated: under fair scheduling, with fetches and exchanges that
\* return, every call of LoadBlocklists in the end completes and has then
\* installed a ruleset, and every datagram is in the end answered.
C29_EveryLoadInstalls ==
    /\ \A l \in Loaders :
          /\ (load[l].pc # "idle") ~> (load[l].pc = "done")
          /\ [](load[l].pc = "done" => ~load[l].err)
    /\ Answered

\* C29 (amended): every call of LoadBlocklists in the end completes, and
\* one that got past the creation of the cache directory installs a
\* ruleset before it does; every datagram is in the end answered.
C29_NoHang ==
    /\ \A l \in Loaders :
          /\ (load[l].pc # "idle") ~> (load[l].pc = "done")
          /\ (load[l].pc = "range") ~> (load[l].pc = "report")
    /\ Answered

\* C29 witness: a load has ended with its ruleset installed and a datagram
\* for a name of that ruleset was sinkholed, so was handled after the
\* load began.
C29_Witness ==
    /\ load[1].pc = "done" /\ ~load[1].err
    /\ Live = {<<"a">>, <<"a", ".", "a">>, <<"a", "a">>}
    /\ handler[1].pc = "done"
    /\ handler[1].r.Question = <<[Name |-> <<"a", ".">>, Qtype |-> "A"]>>
    /\ handler[1].up = <<>>
    /\ Len(handler[1].w) = 1

\* ---------------------------------------------------------------- C32
\* C32: in every reachable state, under every interleaving of the
\* handlers, the blocked counter is at most the total-queries counter.
C32_BlockedAtMostQueries == statsBlocked <= statsQueries

\* C32 witness: two standard queries are counted, one of them is counted
\* as blocked and the other handler stands right before its increment of
\* the blocked counter.
C32_Witness ==
    /\ statsQueries = 2
    /\ statsBlocked = 1
    /\ \E h \in Handlers : handler[h].pc = "countBlocked"

\* ---------------------------------------------------------------- C33
\* The enabled sources of l's cycle that were fetched and parsed.
ParsedSources(l) == {s \in Sources : /\ cfg.Blocklists[s].Enabled
                                     /\ task[l][s].pc = "done"
                                     /\ ~task[l][s].failed}

\* The number of distinct domains in the content of each source of S,
\* summed up.
RECURSIVE SumDistinct(_, _)
SumDistinct(l, S) ==
    IF S = {} THEN 0
    ELSE LET s == CHOOSE x \in S : TRUE IN
         Cardinality(RefSourceRules(cfg.Blocklists[s].Format, task[l][s].content))
            + SumDistinct(l, S \ {s})

C34_FatalLoadChangesNothing ==
    [][(LoadCall /\ lastCall'.err) =>
          /\ svc'.logLines[Len(svc'.logLines)] = "Reload failed"
          /\ Requested(lastCall') = {}
          /\ cache' = cache
          /\ Live' = Live
          /\ allowlistMap' = allowlistMap
          /\ cfg' = cfg
          /\ \A d \in Queries :
                IsBlockedIn(Live', allowlistMap', d) = IsBlockedIn(Live, allowlistMap, d)]_vars

\* C34 witness: a reload has failed while a ruleset loaded before it is
\* live and the cache holds what that load fetched.
C34_Witness ==
    /\ lastCall.op = "LoadBlocklists"
    /\ lastCall.err
    /\ svc.logged = 4
    /\ svc.logLines[4] = "Reload failed"
    /\ svc.logLines[2] = "Reload complete."
    /\ Live # {}
    /\ \E s \in Sources : cache[s].exists

\* ---------------------------------------------------------------- C35
\* A step that is a call of ToggleSource, AddAllowed or RemoveAllowed.
ConfigCall ==
    /\ lastCall'.n # lastCall.n
    /\ lastCall'.op \in {"ToggleSource", "AddAllowed", "RemoveAllowed"}

\* C35: when persisting the configuration fails, ToggleSource, AddAllowed
\* and RemoveAllowed return an error and leave the in-memory state as it
\* was before the call: no source flag, no entry of the allowlist map and
\* no entry of the ordered allowlist is changed.
C35_SaveFailureRollsBack ==
    [][(ConfigCall /\ lastCall'.err) =>
          /\ cfg'.Blocklists = cfg.Blocklists
          /\ cfg'.Allowlist = cfg.Allowlist
          /\ allowlistMap' = allowlistMap]_vars

\* ---------------------------------------------------------------- C36
\* The sources whose cache file was 24 hours old or older when call c
\* fetched them and whose download failed.
StaleAndDown(c) ==
    {s \in Sources : /\ cache[s].exists /\ ~Fresh(cache[s])
                     /\ c.out.fetch[s].get \in GetFailures}

\* C36: when a source's cache file is 24 hours old or older and the
\* download fails, the fetch reports the source as failed, the stale
\* content is not used as the source's content (the ruleset is built from
\* the other sources alone) and the cache file is left as it was; a load
\* that finds an enabled source's cache file that old tries the download.
C36_StaleCacheNotUsed ==
    [][LoadCall =>
          /\ \A s \in StaleAndDown(lastCall') :
                /\ lastCall'.out.fetch[s].err
                /\ lastCall'.out.fetch[s].content = <<>>
                /\ cache'[s] = cache[s]
          /\ ~lastCall'.err =>
                Live' \subseteq
                    UNION {RefSourceRules(cfg.Blocklists[s].Format,
                                          lastCall'.out.fetch[s].content) :
                              s \in Requested(lastCall') \ StaleAndDown(lastCall')}
          /\ \A s \in Requested(lastCall') :
                (cache[s].exists /\ ~Fresh(cache[s])) =>
                    lastCall'.out.fetch[s].get # "none"]_vars

\* C36 witness: the last load found the raw source's cache file too old,
\* could not download it and left the file, which holds domains, alone;
\* the ruleset has none of them.
C36_Witness ==
    /\ lastCall.op = "LoadBlocklists" /\ ~lastCall.err
    /\ lastCall.out.fetch[2].cause = "old"
    /\ lastCall.out.fetch[2].get \in GetFailures
    /\ lastCall.out.fetch[2].err
    /\ cache[2].exists /\ cache[2].age = CacheTTL
    /\ RefSourceRules("wild", cache[2].content) # {}
    /\ Live = {}

\* ---------------------------------------------------------------- C37
\* The line up to its first "#".
RefUncommented(line) ==
    SubSeq(line, 1, Cardinality({i \in 1..Len(line) :
                                    \A j \in 1..i : line[j] # "#"}))

\* Where the whitespace-separated tokens of s begin.
RefStarts(s) == {i \in 1..Len(s) : s[i] # " " /\ (i = 1 \/ s[i - 1] = " ")}

\* The token of s that begins at i.
RefToken(s, i) ==
    SubSeq(s, i, CHOOSE e \in i..Len(s) :
                    /\ \A j \in i..e : s[j] # " "
                    /\ (e = Len(s) \/ s[e + 1] = " "))

\* What C37 has parseHostsLine return for a line.
RefHostsDomain(line) ==
    LET s == RefUncommented(line)
        starts == RefStarts(s)
        first == CHOOSE i \in starts : \A j \in starts : i <= j
        second == CHOOSE i \in starts \ {first} : \A j \in starts \ {first} : i <= j
    IN IF /\ Cardinality(starts) >= 2
          /\ RefToken(s, first) \in
                {<<"0", ".", "0", ".", "0", ".", "0">>,
                 <<"1", "2", "7", ".", "0", ".", "0", ".", "1">>,
                 <<":", ":", "1">>, <<"0">>}
       THEN [i \in 1..Len(RefToken(s, second)) |->
                IF RefToken(s, second)[i] = "A" THEN "a" ELSE RefToken(s, second)[i]]
       ELSE <<>>

\* C37: for every line, parseHostsLine returns the lowercased second
\* whitespace-separated token when the line, cut at its first "#", has at
\* least two tokens and the first is 0.0.0.0, 127.0.0.1, ::1 or 0; it
\* returns no domain for an empty line, a line starting with "#", a line
\* with fewer than two tokens and a line with another first token.
C37_ParseHostsLine ==
    lastCall.op = "parseHostsLine" =>
        LET line == lastCall.arg[1] IN
        /\ lastCall.out = RefHostsDomain(line)
        /\ (line = <<>> \/ line[1] = "#") => lastCall.out = <<>>
        /\ Cardinality(RefStarts(RefUncommented(line))) < 2 => lastCall.out = <<>>

\* C37 witness: " 0.0.0.0  A.a #a" gave "a.a".
C37_Witness ==
    /\ lastCall.op = "parseHostsLine"
    /\ lastCall.arg = << <<" ", "0", ".", "0", ".", "0", ".", "0", " ", " ",
                          "A", ".", "a", " ", "#", " ", "a">> >>
    /\ lastCall.out = <<"a", ".", "a">>

\* ---------------------------------------------------------------- C38
\* A normalized domain: non-empty, lowercase, not ending in a dot.
NormalizedDomain(d) ==
    /\ d # <<>>
    /\ \A i \in 1..Len(d) : d[i] # "A"
    /\ d[Len(d)] # "."

\* C38: after any load every entry of the live ruleset is a normalized
\* domain, whatever the sources hold and in either format.
C38_LiveEntriesNormalized == \A d \in Live : NormalizedDomain(d)

\* ---------------------------------------------------------------- C39
\* A step that is a call of RestoreDNS.
RestoreCall == lastCall'.n # lastCall.n /\ lastCall'.op = "RestoreDNS"

\* C39: restoring the system's DNS is a round trip: after UnlockPort and
\* one or more calls of SetupDNS (a restart after a crash makes a second
\* one), RestoreDNS leaves /etc/resolv.conf and resolved.conf with the
\* contents they had before the first setup, and the two copies removed.
C39_RestoreRoundTrip ==
    [][(RestoreCall /\ etc.unlocks >= 1 /\ etc.setups >= 1) =>
          /\ etc'.resolv = etc.was.resolv
          /\ etc'.resolved = etc.was.resolved
          /\ etc'.orig = <<>>
          /\ etc'.backup = <<>>]_vars

\* ---------------------------------------------------------------- C31
\* An order of the locks: the manager's and the server's lock before the
\* log buffer's; the merge lock of a load before its statistics lock.
Rank(x) ==
    CASE x \in {"m.mu", "s.mu"} -> 1
      [] x = "logMu" -> 2
      [] x = "mu" -> 3
      [] OTHER -> 4

\* C31: no deadlock is reachable among query handling, reloads,
\* ToggleSource, SetLogger, the logging callbacks and GetRecentLogs: as
\* long as some goroutine is inside a function, some goroutine can step;
\* the locks are never acquired in a cyclic order (each lock asked for
\* ranks above every lock held); and no goroutine asks for a lock it
\* already holds, in particular no read lock while calling the callback.
C31_NoDeadlock ==
    /\ (\E t \in Threads : lk[t].op # "none") => \E t \in Threads : Ready(t)
    /\ \A t \in Threads :
          Ins(t)[1] \in {"RLock", "Lock"} =>
              \A h \in lk[t].held : h[1] # Ins(t)[2] /\ Rank(h[1]) < Rank(Ins(t)[2])

\* C31 witness: a source goroutine of a running load is inside the
\* callback, holding the manager's read lock and the log lock, while a
\* writer waits for the manager's lock and the handler, holding the
\* server's read lock, waits for the log lock.
C31_Witness ==
    /\ lk["task1"].held = {<<"m.mu", "r">>, <<"logMu", "w">>}
    /\ Asking("m.mu") # {}
    /\ lk["handler"].held = {<<"s.mu", "r">>}
    /\ Ins("handler") = <<"Lock", "logMu">>

====
